---- MODULE Spec2Model ----
(***************************************************************************)
(* A model of the jindo front end: the token model, the scanner, the       *)
(* recursive-descent parser and the pretty-printer.                        *)
(*                                                                         *)
(* Source text is a sequence of characters.  A character is a one-letter   *)
(* string; the characters that cannot be written inside a TLA+ string are  *)
(* named: LF (newline), TAB, CR, DQ ("), SQ ('), BQ (`), BSL (\).          *)
(* Three runes >= utf8.RuneSelf are named by their code point.             *)
(***************************************************************************)
EXTENDS Integers, Sequences, FiniteSets, TLC

\* ------------------------------------------------------------------------
\* Characters
\* ------------------------------------------------------------------------

\* the reader's sentinel ch == -1
eof == "EOFCH"
LF == "LF"
TAB == "TAB"
CR == "CR"
DQ == "DQ"
SQ == "SQ"
BQ == "BQ"
BSL == "BSL"
\* U+00E9 is a letter, U+0663 a digit, U+00A7 neither; each is 2 bytes wide
HighLetter == "U+00E9"
HighDigit == "U+0663"
HighOther == "U+00A7"
RuneSelfChars == {HighLetter, HighDigit, HighOther}

LowerSeq == <<"a","b","c","d","e","f","g","h","i","j","k","l","m","n","o","p","q","r","s","t","u","v","w","x","y","z">>
UpperSeq == <<"A","B","C","D","E","F","G","H","I","J","K","L","M","N","O","P","Q","R","S","T","U","V","W","X","Y","Z">>
DigitSeq == <<"0","1","2","3","4","5","6","7","8","9">>
HexLetterSeq == <<"a","b","c","d","e","f">>

\* the value bound by a one-element set
The(S) == CHOOSE e \in S : TRUE

ToSet(seq) == {seq[i] : i \in 1..Len(seq)}
IndexOf(seq, x) == CHOOSE i \in 1..Len(seq) : seq[i] = x

\* lower returns lower-case ch iff ch is an ASCII letter; the scanner only
\* compares the result with letters, so other characters are left alone
lower(c) == IF c \in ToSet(UpperSeq) THEN LowerSeq[IndexOf(UpperSeq, c)] ELSE c
isLetter(c) == lower(c) \in ToSet(LowerSeq) \/ c = "_"
isDecimal(c) == c \in ToSet(DigitSeq)
isHex(c) == isDecimal(c) \/ lower(c) \in ToSet(HexLetterSeq)
DigitVal(c) == IndexOf(DigitSeq, c) - 1
HexLetterVal(c) == IndexOf(HexLetterSeq, lower(c)) - 1 + 10

\* ------------------------------------------------------------------------
\* Token model
\* ------------------------------------------------------------------------

\* the iota enumeration of Token: the ordinal of a token is its index here
\* (the blank identifier _ holds ordinal 0)
TokenList == <<"EOF", "Name", "Literal", "Op", "AssignOp", "IncOp", "Assign", "Define", "Star", "Lparen", "Lbrack", "Lbrace", "Rparen", "Rbrack", "Rbrace", "Comma", "Semi", "Colon", "Dot", "DotDotDot", "keyword_beg", "Break", "Const", "Continue", "While", "Else", "For", "Func", "If", "Import", "Space", "Return", "Type", "Var", "Oper", "keyword_end", "tokenCount">>

\* the zero value of Token
NoToken == "_"

TokOrd(t) == IF t = NoToken THEN 0 ELSE IndexOf(TokenList, t)

\* the token kinds proper (not the range markers)
Tokens == ToSet(TokenList) \ {"keyword_beg", "keyword_end", "tokenCount"}

IsKeyword(t) == TokOrd(t) > TokOrd("keyword_beg") /\ TokOrd(t) < TokOrd("keyword_end")

\* A uint64 is modelled by the set of the positions of its 1 bits, 0..63.
WordBits == 64
ByteBits == 8

\* 1 << n in a word of w bits: a shift by w or more yields 0
Shl1(n, w) == IF n < w THEN {n} ELSE {}

\* the mask 1<<tok of a narrower word, as a shift typed by Token (uint8)
\* would compute it
TokMask8(t) == Shl1(TokOrd(t), ByteBits)

\* the mask 1<<tok that Contains and the set constants compute
TokMask(t) == Shl1(TokOrd(t), WordBits)

BitOr(a, b) == a \cup b
BitAnd(a, b) == a \cap b

Contains(tokset, tok) == BitAnd(tokset, TokMask(tok)) # {}

\* the set ident() tests the token against
identSemiSet == BitOr(BitOr(TokMask("Break"), TokMask("Continue")), BitOr(TokMask("Return"), TokMask("Name")))

\* the parser's stop set
stopset == BitOr(TokMask("If"), TokMask("Var"))

\* tokenString, as a sequence of <<token, text>> entries
tokenString == <<
  <<"EOF", <<"f","i","l","e","O","r","E","o","f">> >>,
  <<"Name", <<"n","a","m","e">> >>,
  <<"Literal", <<"L","i","t","e","r","a","l">> >>,
  <<"Op", <<"o","p">> >>,
  <<"AssignOp", <<"o","p","=">> >>,
  <<"IncOp", <<"o","p","o","p">> >>,
  <<"Assign", <<"=">> >>,
  <<"Define", <<":","=">> >>,
  <<"Star", <<"*">> >>,
  <<"Lparen", <<"(">> >>,
  <<"Lbrack", <<"[">> >>,
  <<"Lbrace", <<"{">> >>,
  <<"Rparen", <<")">> >>,
  <<"Rbrack", <<"]">> >>,
  <<"Rbrace", <<"}">> >>,
  <<"Comma", <<",">> >>,
  <<"Semi", <<";">> >>,
  <<"Colon", <<":">> >>,
  <<"Dot", <<".">> >>,
  <<"DotDotDot", <<".",".",".">> >>,
  <<"Var", <<"v","a","r">> >>,
  <<"Const", <<"c","o","n","s","t">> >>,
  <<"Type", <<"t","y","p","e">> >>,
  <<"Import", <<"i","m","p","o","r","t">> >>,
  <<"If", <<"i","f">> >>,
  <<"Else", <<"e","l","s","e">> >>,
  <<"Space", <<"s","p","a","c","e">> >>,
  <<"Oper", <<"o","p","e","r">> >>,
  <<"Func", <<"f","u","n","c">> >>,
  <<"Return", <<"r","e","t","u","r","n">> >>,
  <<"For", <<"f","o","r">> >>,
  <<"While", <<"w","h","i","l","e">> >>,
  <<"Break", <<"b","r","e","a","k">> >>,
  <<"Continue", <<"c","o","n","t","i","n","u","e">> >>
>>

TokenText(t) == IF \E i \in 1..Len(tokenString) : tokenString[i][1] = t THEN tokenString[CHOOSE i \in 1..Len(tokenString) : tokenString[i][1] = t][2] ELSE <<>>

\* KeywordOrName ranges over the whole of tokenString
KeywordOrName(lit) == IF \E i \in 1..Len(tokenString) : tokenString[i][2] = lit THEN tokenString[CHOOSE i \in 1..Len(tokenString) : tokenString[i][2] = lit][1] ELSE "Name"

\* operator precedences
PrecOrOr == 1
PrecAndAnd == 2
PrecCmp == 3
PrecAdd == 4
PrecMul == 5

\* position bases
linebase == 1
colbase == 1
PosMax == 1073741824

\* ------------------------------------------------------------------------
\* Source reader.  r is the index in src of the current character ch
\* (0 before the first read, Len(src)+1 at the end of input); line and col
\* are the 0-based position of ch; b is the start of the active segment
\* (0: none).
\* ------------------------------------------------------------------------

ch(s) == IF s.r = 0 THEN " " ELSE IF s.r > Len(s.src) THEN eof ELSE s.src[s.r]

chw(s) == IF s.r = 0 \/ s.r > Len(s.src) THEN 0 ELSE IF s.src[s.r] \in RuneSelfChars THEN 2 ELSE 1

nextch(s) == [s EXCEPT !.col = IF ch(s) = LF THEN 0 ELSE @ + chw(s), !.line = IF ch(s) = LF THEN @ + 1 ELSE @, !.r = IF @ > Len(s.src) THEN @ ELSE @ + 1]

pos(s) == [line |-> linebase + s.line, col |-> colbase + s.col]

start(s) == [s EXCEPT !.b = s.r]

stop(s) == [s EXCEPT !.b = 0]

Segment(s) == SubSeq(s.src, s.b, s.r - 1)

rewind(s) == [s EXCEPT !.r = s.b, !.col = @ - (s.r - s.b)]

\* ------------------------------------------------------------------------
\* Positions and position bases
\* ------------------------------------------------------------------------

\* the nil base of the zero Pos
NoBase == [origin |-> [line |-> 0, col |-> 0], filename |-> <<>>, line |-> 0, col |-> 0]

Sat32(x) == IF x > PosMax THEN PosMax ELSE x

MakePos(base, line, col) == [base |-> base, line |-> line, col |-> col]

\* a file base is its own origin: pos.base points back at the base, which
\* the record spells as the origin without a base
NewFileBase(filename) == [origin |-> [line |-> linebase, col |-> colbase], filename |-> filename, line |-> linebase, col |-> colbase]

NewPosBase(bpos, filename, line, col) == [origin |-> bpos, filename |-> filename, line |-> Sat32(line), col |-> Sat32(col)]

NewLineBase(bpos, filename, line, col) == NewPosBase(bpos, filename, line, col)

\* the file name the parser is started with
src_ == <<"t", "e", "s", "t", ".", "p", "a", "w">>

\* ------------------------------------------------------------------------
\* Line directives
\* ------------------------------------------------------------------------

\* the number of bytes of a text
RECURSIVE ByteLen(_)
ByteLen(text) == IF text = <<>> THEN 0 ELSE (IF Head(text) \in RuneSelfChars THEN 2 ELSE 1) + ByteLen(Tail(text))

HasPrefix(text, prefix) == Len(text) >= Len(prefix) /\ SubSeq(text, 1, Len(prefix)) = prefix

\* strings.LastIndex for a one-character separator: the 0-based index of
\* its last occurrence, -1 when there is none
LastIndex(text, c) == IF \E k \in 1..Len(text) : text[k] = c THEN (CHOOSE k \in 1..Len(text) : text[k] = c /\ \A j \in (k + 1)..Len(text) : text[j] # c) - 1 ELSE -1

\* the largest uint64, 1<<64 - 1, in decimal digits
MaxUint64 == <<"1","8","4","4","6","7","4","4","0","7","3","7","0","9","5","5","1","6","1","5">>

RECURSIVE TrimZeros(_)
TrimZeros(d) == IF Len(d) > 1 /\ Head(d) = "0" THEN TrimZeros(Tail(d)) ELSE d

\* a <= b for digit strings of the same length
RECURSIVE DigitsLeq(_, _)
DigitsLeq(a, b) ==
  IF a = <<>> THEN TRUE
  ELSE IF DigitVal(Head(a)) # DigitVal(Head(b)) THEN DigitVal(Head(a)) < DigitVal(Head(b))
  ELSE DigitsLeq(Tail(a), Tail(b))

InUint64(d) == Len(TrimZeros(d)) < Len(MaxUint64) \/ (Len(TrimZeros(d)) = Len(MaxUint64) /\ DigitsLeq(TrimZeros(d), MaxUint64))

\* the value of a digit string; values beyond PosMax are kept as PosMax + 1,
\* which every use (the tests against 0 and PosMax, Sat32) treats alike
RECURSIVE DigitsValue(_, _)
DigitsValue(d, n) == IF d = <<>> THEN n ELSE DigitsValue(Tail(d), IF n > PosMax \div 10 \/ n * 10 + DigitVal(Head(d)) > PosMax THEN PosMax + 1 ELSE n * 10 + DigitVal(Head(d)))

\* strconv.ParseUint(s, 10, 0) on a 64-bit uint: an error for the empty
\* string, for a character that is not a decimal digit, and for a value
\* that does not fit 64 bits
ParseUint(s) ==
  IF s = <<>> \/ \E k \in 1..Len(s) : ~isDecimal(s[k]) THEN [n |-> 0, ok |-> FALSE]
  ELSE IF ~InUint64(s) THEN [n |-> PosMax + 1, ok |-> FALSE]
  ELSE [n |-> DigitsValue(s, 0), ok |-> TRUE]

trailingDigits(text) ==
  IF LastIndex(text, ":") < 0 THEN [i |-> 0, n |-> 0, ok |-> FALSE]
  ELSE The({[i |-> LastIndex(text, ":") + 1, n |-> u.n, ok |-> u.ok] : u \in {ParseUint(SubSeq(text, LastIndex(text, ":") + 2, Len(text)))}})

commentText(s) ==
  IF SubSeq(s, 1, 2) = <<"/", "*">> THEN SubSeq(s, 3, Len(s) - 2)
  ELSE SubSeq(s, 3, IF s[Len(s)] = CR THEN Len(s) - 1 ELSE Len(s))

\* ------------------------------------------------------------------------
\* Error handlers
\* ------------------------------------------------------------------------

\* a call of the scanner's error handler: s.errs are the calls made
errh(s, line, col, msg) == [s EXCEPT !.errs = Append(@, [line |-> line, col |-> col, msg |-> msg])]

posAt(p, line, col) == MakePos(p.base, line, col)
parserPos(p) == posAt(p, p.tline, p.tcol)

\* parser.errorAt: the error goes to the parser's handler (or is printed
\* when there is none) with its position, base included
errorAt(p, epos, msg) == IF p.halt = "run" THEN [p EXCEPT !.errs = Append(@, [line |-> epos.line, col |-> epos.col, msg |-> msg, base |-> epos.base])] ELSE p

linePrefix == <<"l", "i", "n", "e", " ">>
invalidLine == <<"i","n","v","a","l","i","d"," ","l","i","n","e"," ","n","u","m","b","e","r",":"," ">>
invalidColumn == <<"i","n","v","a","l","i","d"," ","c","o","l","u","m","n"," ","n","u","m","b","e","r",":"," ">>

\* updateBaseLine reusing the previous file name in either form
updateBaseLineReuse(p, bpos, tline, tcol, text, i, line, col, ok2) ==
  IF line = 0 \/ line > PosMax
  THEN errorAt(p, posAt(p, tline, tcol + i), invalidLine \o SubSeq(text, i + 1, Len(text)))
  ELSE [p EXCEPT !.base = NewLineBase(bpos, IF i - 1 = 0 THEN p.base.filename ELSE SubSeq(text, 1, i - 1), line, col)]

\* parser.updateBase from the test of the line number on: text has lost its
\* ":col", i is the index after the ":" before the line number
updateBaseLine(p, bpos, tline, tcol, text, i, line, col, ok2) ==
  IF line = 0 \/ line > PosMax
  THEN errorAt(p, posAt(p, tline, tcol + i), invalidLine \o SubSeq(text, i + 1, Len(text)))
  ELSE [p EXCEPT !.base = NewLineBase(bpos, IF i - 1 = 0 /\ ok2 THEN p.base.filename ELSE SubSeq(text, 1, i - 1), line, col)]

updateBase(p, bpos, tline, tcol, text) ==
  LET t == trailingDigits(text)
      t2 == trailingDigits(SubSeq(text, 1, t.i - 1))
  IN IF t.i = 0 THEN p
     ELSE IF ~t.ok THEN errorAt(p, posAt(p, tline, tcol + t.i), invalidLine \o SubSeq(text, t.i + 1, Len(text)))
     ELSE IF t2.ok
          THEN IF t.n = 0 \/ t.n > PosMax
               THEN errorAt(p, posAt(p, tline, tcol + t.i), invalidColumn \o SubSeq(text, t.i + 1, Len(text)))
               ELSE updateBaseLine(p, bpos, tline, tcol, SubSeq(text, 1, t.i - 1), t2.i, t2.n, t.n, TRUE)
          ELSE updateBaseLine(p, bpos, tline, tcol, text, t.i, t.n, 0, FALSE)

\* the handler parser.init installs in its scanner: an error is passed on, a
\* comment is looked at for a line directive
handler(p, line, col, msg) ==
  IF msg[1] # "/" THEN errorAt(p, posAt(p, line, col), msg)
  ELSE IF (col = colbase \/ msg[2] = "*") /\ HasPrefix(commentText(msg), linePrefix)
       THEN updateBase(p, IF msg[2] = "/" THEN MakePos(p.file, line + 1, colbase) ELSE MakePos(p.file, line, col + ByteLen(msg)),
                       line, col + 2 + 5, SubSeq(commentText(msg), 6, Len(commentText(msg))))
       ELSE p

\* the handler applied to the calls the scanner made during one Next, in
\* their order: the scanner reads nothing the handler writes
RECURSIVE handle(_, _, _)
handle(p, calls, i) == IF i > Len(calls) THEN p ELSE handle(handler(p, calls[i].line, calls[i].col, calls[i].msg), calls, i + 1)

\* source.error: report at the position of ch
error(s, msg) == errh(s, pos(s).line, pos(s).col, msg)

\* source.init followed by Scanner.Init
ScannerInit(src) == [src |-> src, r |-> 0, line |-> 0, col |-> 0, b |-> 0, mode |-> 0, nlsemi |-> FALSE, tline |-> 0, tcol |-> 0, blank |-> FALSE, tok |-> NoToken, lit |-> <<>>, bad |-> FALSE, kind |-> "IntLit", op |-> "NoneOp", prec |-> 0, errs |-> <<>>]

\* ------------------------------------------------------------------------
\* Scanner
\* ------------------------------------------------------------------------

\* mode flags
HasComments(mode) == mode \in {1, 3}
HasDirectives(mode) == mode \in {2, 3}

\* errorf reports at the most recently read character
errorf(s, msg) == error(s, msg)

\* errorAtf reporting the message the way a comment is surfaced
errorAtfComment(s, offset, msg) == errh(s, s.tline, s.tcol + offset, <<"/", "/">> \o msg)

\* errorAtf reports at a column offset relative to the current token start
errorAtf(s, offset, msg) == errh(s, s.tline, s.tcol + offset, msg)

setLit(s, kind, ok) == [s EXCEPT !.nlsemi = TRUE, !.tok = "Literal", !.lit = Segment(s), !.bad = ~ok, !.kind = kind]

setTok(s, tok) == [s EXCEPT !.tok = tok]

setOp(s, op, prec) == [s EXCEPT !.op = op, !.prec = prec]

\* the label assignop of Next
assignop(s) == IF ch(s) = "=" THEN setTok(nextch(s), "AssignOp") ELSE setTok(s, "Op")

RECURSIVE identAscii(_)
identAscii(s) == IF isLetter(ch(s)) \/ isDecimal(ch(s)) THEN identAscii(nextch(s)) ELSE s

\* atIdentChar: whether ch may be part of an identifier, and the scanner
\* after the diagnostics it reports
atIdentChar(s, first) ==
  LET c == ch(s) IN
  IF c = HighLetter \/ isLetter(c) THEN [ok |-> TRUE, s |-> s]
  ELSE IF c = HighDigit \/ isDecimal(c) THEN [ok |-> TRUE, s |-> IF first THEN errorf(s, <<"i","d","e","n","t","i","f","i","e","r"," ","c","a","n","n","o","t"," ","b","e","g","i","n"," ","w","i","t","h"," ","d","i","g","i","t">>) ELSE s]
  ELSE IF c \in RuneSelfChars THEN [ok |-> TRUE, s |-> errorf(s, <<"i","n","v","a","l","i","d"," ","c","h","a","r","a","c","t","e","r"," ","i","n"," ","i","d","e","n","t","i","f","i","e","r">>)]
  ELSE [ok |-> FALSE, s |-> s]

RECURSIVE identGeneral(_)
identGeneral(s) ==
  LET a == atIdentChar(s, FALSE) IN
  IF a.ok THEN identGeneral(nextch(a.s)) ELSE s

ident(s0) ==
  LET s1 == identAscii(s0)
      s2 == IF ch(s1) \in RuneSelfChars THEN identGeneral(s1) ELSE s1
      lit == Segment(s2)
      tok == KeywordOrName(lit)
  IN [s2 EXCEPT !.tok = tok, !.nlsemi = Contains(identSemiSet, tok), !.lit = lit]

\* The state of number(): n.s is the scanner, the other fields are the
\* locals ok, kind, base, prefix, digsep (dig: bit 0, sep: bit 1), invalid
\* and seenPoint.  prefix is one of "" (decimal), "0" (0-octal), "x", "o",
\* "b".

\* digits accepts { digit | '_' }; noinv stands for the nil pointer passed
\* as invalid
baseName(base) ==
  CASE base = 2 -> <<"b","i","n","a","r","y">>
    [] base = 8 -> <<"o","c","t","a","l">>
    [] base = 10 -> <<"d","e","c","i","m","a","l">>
    [] base = 16 -> <<"h","e","x","a","d","e","c","i","m","a","l">>

RECURSIVE digits(_, _, _)
digits(n, base, noinv) ==
  LET c == ch(n.s) IN
  IF base <= 10
  THEN IF isDecimal(c) \/ c = "_"
       THEN digits([n EXCEPT !.s = nextch(n.s), !.dig = @ \/ c # "_", !.sep = @ \/ c = "_",
                             !.invalid = IF c # "_" /\ DigitVal(c) >= base /\ ~noinv /\ @ < 0 THEN pos(n.s).col - n.s.tcol ELSE @],
                   base, noinv)
       ELSE n
  ELSE IF isHex(c) \/ c = "_"
       THEN digits([n EXCEPT !.s = nextch(n.s), !.dig = @ \/ c # "_", !.sep = @ \/ c = "_"], base, noinv)
       ELSE n

\* invalidSep returns the (0-based) index of the first invalid separator
\* in x, or -1; d is one of "_", "0" (a digit) or "." (anything else)
RECURSIVE invalidSepLoop(_, _, _, _)
invalidSepLoop(x, x1, d, i) ==
  IF i >= Len(x) THEN (IF d = "_" THEN Len(x) - 1 ELSE -1)
  ELSE LET c == x[i + 1] IN
       IF c = "_" THEN (IF d # "0" THEN i ELSE invalidSepLoop(x, x1, "_", i + 1))
       ELSE IF isDecimal(c) \/ (x1 = "x" /\ isHex(c)) THEN invalidSepLoop(x, x1, "0", i + 1)
       ELSE IF d = "_" THEN i - 1
       ELSE invalidSepLoop(x, x1, ".", i + 1)

\* invalidSep without "a prefix counts as a digit"
invalidSepStrict(x) ==
  LET x1 == IF Len(x) >= 2 /\ x[1] = "0" THEN lower(x[2]) ELSE " "
      pfx == x1 \in {"x", "o", "b"}
  IN invalidSepLoop(x, x1, ".", IF pfx THEN 2 ELSE 0)

invalidSep(x) ==
  LET x1 == IF Len(x) >= 2 /\ x[1] = "0" THEN lower(x[2]) ELSE " "
      pfx == x1 \in {"x", "o", "b"}
  IN invalidSepLoop(x, x1, IF pfx THEN "0" ELSE ".", IF pfx THEN 2 ELSE 0)

numberStart(s, seenPoint) == [s |-> s, ok |-> TRUE, kind |-> "IntLit", base |-> 10, prefix |-> "", dig |-> FALSE, sep |-> FALSE, invalid |-> -1, seenPoint |-> seenPoint]

\* the prefix of the integer part (the leading 0 has been seen at n.s)
numberPrefix(n) ==
  IF n.seenPoint \/ ch(n.s) # "0" THEN n
  ELSE IF lower(ch(nextch(n.s))) = "x" THEN [n EXCEPT !.s = nextch(nextch(n.s)), !.base = 16, !.prefix = "x"]
  ELSE IF lower(ch(nextch(n.s))) = "o" THEN [n EXCEPT !.s = nextch(nextch(n.s)), !.base = 8, !.prefix = "o"]
  ELSE IF lower(ch(nextch(n.s))) = "b" THEN [n EXCEPT !.s = nextch(nextch(n.s)), !.base = 2, !.prefix = "b"]
  ELSE [n EXCEPT !.s = nextch(n.s), !.base = 8, !.prefix = "0", !.dig = TRUE]

\* the digits of the integer part
numberInt(n) == IF n.seenPoint THEN n ELSE digits(n, n.base, FALSE)

\* the radix point after the integer part
numberPoint(n) ==
  IF n.seenPoint \/ ch(n.s) # "." THEN n
  ELSE IF n.prefix \in {"o", "b"}
  THEN [n EXCEPT !.s = nextch(errorf(n.s, <<"i","n","v","a","l","i","d"," ","r","a","d","i","x"," ","p","o","i","n","t"," ","i","n"," ","l","i","t","e","r","a","l">>)), !.ok = FALSE, !.seenPoint = TRUE]
  ELSE [n EXCEPT !.s = nextch(n.s), !.seenPoint = TRUE]

\* the fractional part
numberFrac(n) == IF n.seenPoint THEN digits([n EXCEPT !.kind = "FloatLit"], n.base, FALSE) ELSE n

numberNoDigits(n) ==
  IF ~n.dig /\ n.ok THEN [n EXCEPT !.s = errorf(n.s, baseName(n.base) \o <<" ","l","i","t","e","r","a","l"," ","h","a","s"," ","n","o"," ","d","i","g","i","t","s">>), !.ok = FALSE] ELSE n

\* the exponent, from its letter e up to the sign
numberExpHead(n, e) ==
  LET wrong == n.ok /\ ((e = "e" /\ n.prefix # "" /\ n.prefix # "0") \/ (e = "p" /\ n.prefix # "x"))
      s1 == nextch(IF wrong THEN errorf(n.s, <<SQ, ch(n.s), SQ>> \o (IF e = "e" THEN <<" ","e","x","p","o","n","e","n","t"," ","r","e","q","u","i","r","e","s"," ","d","e","c","i","m","a","l"," ","m","a","n","t","i","s","s","a">> ELSE <<" ","e","x","p","o","n","e","n","t"," ","r","e","q","u","i","r","e","s"," ","h","e","x","a","d","e","c","i","m","a","l"," ","m","a","n","t","i","s","s","a">>)) ELSE n.s)
  IN [n EXCEPT !.s = IF ch(s1) \in {"+", "-"} THEN nextch(s1) ELSE s1, !.ok = @ /\ ~wrong, !.kind = "FloatLit", !.dig = FALSE]

numberExpDigits(n) ==
  IF ~n.dig /\ n.ok THEN [n EXCEPT !.s = errorf(n.s, <<"e","x","p","o","n","e","n","t"," ","h","a","s"," ","n","o"," ","d","i","g","i","t","s">>), !.ok = FALSE] ELSE n

numberExp(n) ==
  IF lower(ch(n.s)) \in {"e", "p"} THEN numberExpDigits(digits(numberExpHead(n, lower(ch(n.s))), 10, TRUE))
  ELSE IF n.prefix = "x" /\ n.kind = "FloatLit" /\ n.ok
  THEN [n EXCEPT !.s = errorf(n.s, <<"h","e","x","a","d","e","c","i","m","a","l"," ","m","a","n","t","i","s","s","a"," ","r","e","q","u","i","r","e","s"," ","a"," ",SQ,"p",SQ," ","e","x","p","o","n","e","n","t">>), !.ok = FALSE]
  ELSE n

\* the suffix 'i' and setLit
numberLit(n) ==
  IF ch(n.s) = "i" THEN [n EXCEPT !.s = setLit(nextch(n.s), "ImagLit", n.ok), !.kind = "ImagLit"]
  ELSE [n EXCEPT !.s = setLit(n.s, n.kind, n.ok)]

numberInvalidDigit(n) ==
  IF n.kind = "IntLit" /\ n.invalid >= 0 /\ n.ok
  THEN [n EXCEPT !.s = errorAtf(n.s, n.invalid, <<"i","n","v","a","l","i","d"," ","d","i","g","i","t"," ","i","n"," ","l","i","t","e","r","a","l">>), !.ok = FALSE]
  ELSE n

numberInvalidSep(n) ==
  IF n.sep /\ n.ok /\ invalidSep(n.s.lit) >= 0
  THEN [n EXCEPT !.s = errorAtf(n.s, invalidSep(n.s.lit), <<SQ,"_",SQ," ","m","u","s","t"," ","s","e","p","a","r","a","t","e"," ","s","u","c","c","e","s","s","i","v","e"," ","d","i","g","i","t","s">>), !.ok = FALSE]
  ELSE n

\* s.bad = !ok
numberBad(n) == [n.s EXCEPT !.bad = ~n.ok]

number(s, seenPoint) ==
  numberBad(numberInvalidSep(numberInvalidDigit(numberLit(numberExp(numberNoDigits(numberFrac(numberPoint(numberInt(numberPrefix(numberStart(s, seenPoint)))))))))))

\* the largest value an escape is compared with; a larger one is kept at
\* EscCap (8 hexadecimal digits do not overflow the uint32 of the code)
MaxRune == 1114111
EscCap == MaxRune + 1
SurrogateMin == 55296
SurrogateMax == 57344

RECURSIVE escapeDigits(_, _, _, _, _)
escapeDigits(s, n, base, max, x) ==
  IF n = 0
  THEN IF x > max /\ base = 8 THEN [ok |-> FALSE, s |-> errorf(s, <<"o","c","t","a","l"," ","e","s","c","a","p","e"," ","v","a","l","u","e"," ",">"," ","2","5","5">>)]
       ELSE IF x > max \/ (SurrogateMin <= x /\ x < SurrogateMax) THEN [ok |-> FALSE, s |-> errorf(s, <<"e","s","c","a","p","e"," ","i","s"," ","i","n","v","a","l","i","d"," ","U","n","i","c","o","d","e"," ","c","o","d","e"," ","p","o","i","n","t">>)]
       ELSE [ok |-> TRUE, s |-> s]
  ELSE IF ch(s) = eof THEN [ok |-> TRUE, s |-> s]
  ELSE LET c == ch(s)
           d == IF isDecimal(c) THEN DigitVal(c) ELSE IF lower(c) \in ToSet(HexLetterSeq) THEN HexLetterVal(c) ELSE base
           y == x * base + d
       IN IF d >= base THEN [ok |-> FALSE, s |-> errorf(s, <<"i","n","v","a","l","i","d"," ","c","h","a","r","a","c","t","e","r"," ","i","n"," ","e","s","c","a","p","e">>)]
          ELSE escapeDigits(nextch(s), n - 1, base, max, IF y > EscCap THEN EscCap ELSE y)

\* escape taking either quote as the quote of the literal
escapeAnyQuote(s, quote) ==
  LET c == ch(s) IN
  IF c \in {DQ, SQ, "a", "b", "f", "n", "r", "t", "v", BSL} THEN [ok |-> TRUE, s |-> nextch(s)]
  ELSE IF c \in {"0", "1", "2", "3", "4", "5", "6", "7"} THEN escapeDigits(s, 3, 8, 255, 0)
  ELSE IF c = "x" THEN escapeDigits(nextch(s), 2, 16, 255, 0)
  ELSE IF c = "u" THEN escapeDigits(nextch(s), 4, 16, MaxRune, 0)
  ELSE IF c = "U" THEN escapeDigits(nextch(s), 8, 16, MaxRune, 0)
  ELSE IF c = eof THEN [ok |-> TRUE, s |-> s]
  ELSE [ok |-> FALSE, s |-> errorf(s, <<"u","n","k","n","o","w","n"," ","e","s","c","a","p","e">>)]

escape(s, quote) ==
  LET c == ch(s) IN
  IF c \in {quote, "a", "b", "f", "n", "r", "t", "v", BSL} THEN [ok |-> TRUE, s |-> nextch(s)]
  ELSE IF c \in {"0", "1", "2", "3", "4", "5", "6", "7"} THEN escapeDigits(s, 3, 8, 255, 0)
  ELSE IF c = "x" THEN escapeDigits(nextch(s), 2, 16, 255, 0)
  ELSE IF c = "u" THEN escapeDigits(nextch(s), 4, 16, MaxRune, 0)
  ELSE IF c = "U" THEN escapeDigits(nextch(s), 8, 16, MaxRune, 0)
  ELSE IF c = eof THEN [ok |-> TRUE, s |-> s]
  ELSE [ok |-> FALSE, s |-> errorf(s, <<"u","n","k","n","o","w","n"," ","e","s","c","a","p","e">>)]

RECURSIVE runeLoop(_, _, _)
runeLoop(s, ok, n) ==
  LET c == ch(s) IN
  IF c = SQ
  THEN LET s1 == IF ok /\ n = 0 THEN errorf(s, <<"e","m","p","t","y"," ","r","u","n","e"," ","l","i","t","e","r","a","l"," ","o","r"," ","u","n","e","s","c","a","p","e","d"," ",SQ>>)
                 ELSE IF ok /\ n # 1 THEN errorAtf(s, 0, <<"m","o","r","e"," ","t","h","a","n"," ","o","n","e"," ","c","h","a","r","a","c","t","e","r"," ","i","n"," ","r","u","n","e"," ","l","i","t","e","r","a","l">>)
                 ELSE s
       IN [s |-> nextch(s1), ok |-> ok /\ n = 1]
  ELSE IF c = BSL
  THEN LET e == escape(nextch(s), SQ) IN runeLoop(e.s, ok /\ e.ok, n + 1)
  ELSE IF c = LF THEN [s |-> IF ok THEN errorf(s, <<"n","e","w","l","i","n","e"," ","i","n"," ","r","u","n","e"," ","l","i","t","e","r","a","l">>) ELSE s, ok |-> FALSE]
  ELSE IF c = eof THEN [s |-> IF ok THEN errorAtf(s, 0, <<"r","u","n","e"," ","l","i","t","e","r","a","l"," ","n","o","t"," ","t","e","r","m","i","n","a","t","e","d">>) ELSE s, ok |-> FALSE]
  ELSE runeLoop(nextch(s), ok, n + 1)

rune(s) ==
  LET x == runeLoop(nextch(s), TRUE, 0) IN setLit(x.s, "RuneLit", x.ok)

RECURSIVE stdStringLoop(_, _)
stdStringLoop(s, ok) ==
  LET c == ch(s) IN
  IF c = DQ THEN [s |-> nextch(s), ok |-> ok]
  ELSE IF c = BSL
  THEN LET e == escape(nextch(s), DQ) IN stdStringLoop(e.s, ok /\ e.ok)
  ELSE IF c = LF THEN [s |-> errorf(s, <<"n","e","w","l","i","n","e"," ","i","n"," ","s","t","r","i","n","g">>), ok |-> FALSE]
  ELSE IF c = eof THEN [s |-> errorAtf(s, 0, <<"s","t","r","i","n","g"," ","n","o","t"," ","t","e","r","m","i","n","a","t","e","d">>), ok |-> FALSE]
  ELSE stdStringLoop(nextch(s), ok)

stdString(s) ==
  LET x == stdStringLoop(nextch(s), TRUE) IN setLit(x.s, "StringLit", x.ok)

RECURSIVE rawStringLoop(_)
rawStringLoop(s) ==
  LET c == ch(s) IN
  IF c = BQ THEN [s |-> nextch(s), ok |-> TRUE]
  ELSE IF c = eof THEN [s |-> errorAtf(s, 0, <<"s","t","r","i","n","g"," ","n","o","t"," ","t","e","r","m","i","n","a","t","e","d">>), ok |-> FALSE]
  ELSE rawStringLoop(nextch(s))

rawString(s) ==
  LET x == rawStringLoop(nextch(s)) IN setLit(x.s, "StringLit", x.ok)

\* comment surfaces the comment text through the error handler
comment(s, text) == errorAtf(s, 0, text)

RECURSIVE skipLine(_)
skipLine(s) == IF ch(s) # eof /\ ch(s) # LF THEN skipLine(nextch(s)) ELSE s

\* consume the characters of prefix from index i on; ok is false at the
\* first mismatch
RECURSIVE matchPrefix(_, _, _)
matchPrefix(s, prefix, i) ==
  IF i > Len(prefix) THEN [ok |-> TRUE, s |-> s]
  ELSE IF ch(s) # prefix[i] THEN [ok |-> FALSE, s |-> s]
  ELSE matchPrefix(nextch(s), prefix, i + 1)

goPrefix == <<"g", "o", ":">>

lineComment(s) ==
  IF HasComments(s.mode)
  THEN LET s1 == skipLine(s) IN comment(s1, Segment(s1))
  ELSE IF ~HasDirectives(s.mode) \/ (ch(s) # "g" /\ ch(s) # "l") THEN skipLine(stop(s))
  ELSE LET m == matchPrefix(s, IF ch(s) = "l" THEN linePrefix ELSE goPrefix, 1) IN
       IF ~m.ok THEN skipLine(stop(m.s))
       ELSE LET s1 == skipLine(m.s) IN comment(s1, Segment(s1))

RECURSIVE skipComment(_)
RECURSIVE skipStars(_)
skipStars(s) ==
  IF ch(s) = "*"
  THEN LET s1 == nextch(s) IN
       IF ch(s1) = "/" THEN [ok |-> TRUE, s |-> nextch(s1)] ELSE skipStars(s1)
  ELSE skipComment(nextch(s))

skipComment(s) ==
  IF ch(s) # eof THEN skipStars(s)
  ELSE [ok |-> FALSE, s |-> errorAtf(s, 0, <<"c","o","m","m","e","n","t"," ","n","o","t"," ","t","e","r","m","i","n","a","t","e","d">>)]

fullComment(s) ==
  IF HasComments(s.mode)
  THEN LET x == skipComment(s) IN IF x.ok THEN comment(x.s, Segment(x.s)) ELSE x.s
  ELSE IF ~HasDirectives(s.mode) \/ ch(s) # "l" THEN skipComment(stop(s)).s
  ELSE LET m == matchPrefix(s, linePrefix, 1) IN
       IF ~m.ok THEN skipComment(stop(m.s)).s
       ELSE LET x == skipComment(m.s) IN IF x.ok THEN comment(x.s, Segment(x.s)) ELSE x.s

RECURSIVE skipSpace(_, _)
skipSpace(s, nlsemi) ==
  IF ch(s) = " " \/ ch(s) = TAB \/ (ch(s) = LF /\ ~nlsemi) \/ ch(s) = CR THEN skipSpace(nextch(s), nlsemi) ELSE s

\* the token start: white space is skipped, line, col and blank are set
tokenStart(s1, nlsemi) ==
  LET s2 == skipSpace(s1, nlsemi) IN
  start([s2 EXCEPT !.tline = pos(s2).line, !.tcol = pos(s2).col, !.blank = pos(s2).line > pos(s1).line \/ pos(s1).col = colbase])

\* the body of Next from the label redo on; scanToken is the part after the
\* token start
RECURSIVE redo(_, _)
RECURSIVE scanToken(_, _)
redo(s0, nlsemi) == scanToken(tokenStart(stop(s0), nlsemi), nlsemi)

scanToken(s3, nlsemi) ==
  LET c == ch(s3)
      n == nextch(s3)
      c2 == ch(nextch(s3))
  IN
  IF isLetter(c) THEN ident(n)
  ELSE IF c \in RuneSelfChars THEN ident(nextch(atIdentChar(s3, TRUE).s))
  ELSE IF c = eof THEN (IF nlsemi THEN [s3 EXCEPT !.lit = <<"f","i","l","e","O","r","E","o","f">>, !.tok = "Semi"] ELSE setTok(s3, "EOF"))
  ELSE IF c = LF THEN [n EXCEPT !.lit = <<"n","e","w","l","i","n","e">>, !.tok = "Semi"]
  ELSE IF isDecimal(c) THEN number(s3, FALSE)
  ELSE IF c = DQ THEN stdString(s3)
  ELSE IF c = BQ THEN rawString(s3)
  ELSE IF c = SQ THEN rune(s3)
  ELSE IF c = "(" THEN setTok(n, "Lparen")
  ELSE IF c = "[" THEN setTok(n, "Lbrack")
  ELSE IF c = "{" THEN setTok(n, "Lbrace")
  ELSE IF c = "," THEN setTok(n, "Comma")
  ELSE IF c = ";" THEN [n EXCEPT !.lit = <<"s","e","m","i","c","o","l","o","n">>, !.tok = "Semi"]
  ELSE IF c = ")" THEN [n EXCEPT !.nlsemi = TRUE, !.tok = "Rparen"]
  ELSE IF c = "]" THEN [n EXCEPT !.nlsemi = TRUE, !.tok = "Rbrack"]
  ELSE IF c = "}" THEN [n EXCEPT !.nlsemi = TRUE, !.tok = "Rbrace"]
  ELSE IF c = ":" THEN (IF c2 = "=" THEN setTok(nextch(n), "Define") ELSE setTok(n, "Colon"))
  ELSE IF c = "." THEN
       (IF isDecimal(c2) THEN number(n, TRUE)
        ELSE IF c2 = "." THEN
             (IF ch(nextch(n)) = "." THEN setTok(nextch(nextch(n)), "DotDotDot")
              ELSE setTok(nextch(rewind(nextch(n))), "Dot"))
        ELSE setTok(n, "Dot"))
  ELSE IF c = "+" THEN
       (IF c2 # "+" THEN assignop(setOp(n, "Add", PrecAdd))
        ELSE [setOp(nextch(n), "Add", PrecAdd) EXCEPT !.nlsemi = TRUE, !.tok = "IncOp"])
  ELSE IF c = "-" THEN
       (IF c2 # "-" THEN assignop(setOp(n, "Sub", PrecAdd))
        ELSE [setOp(nextch(n), "Sub", PrecAdd) EXCEPT !.nlsemi = TRUE, !.tok = "IncOp"])
  ELSE IF c = "*" THEN
       (IF c2 = "=" THEN setTok(setOp(nextch(n), "Mul", PrecMul), "AssignOp")
        ELSE setTok(setOp(n, "Mul", PrecMul), "Star"))
  ELSE IF c = "/" THEN
       (IF c2 = "/" THEN redo(lineComment(nextch(n)), nlsemi)
        ELSE IF c2 = "*" THEN
             LET f == fullComment(nextch(n)) IN
             IF pos(f).line > f.tline /\ nlsemi
             THEN [f EXCEPT !.lit = <<"n","e","w","l","i","n","e">>, !.tok = "Semi"]
             ELSE redo(f, nlsemi)
        ELSE assignop(setOp(n, "Div", PrecMul)))
  ELSE IF c = "%" THEN assignop(setOp(n, "Rem", PrecMul))
  ELSE IF c = "&" THEN
       (IF c2 = "&" THEN setTok(setOp(nextch(n), "AndAnd", PrecAndAnd), "Op")
        ELSE IF c2 = "^" THEN assignop(setOp(nextch(n), "AndNot", PrecMul))
        ELSE assignop(setOp(n, "And", PrecMul)))
  ELSE IF c = "|" THEN
       (IF c2 = "|" THEN setTok(setOp(nextch(n), "OrOr", PrecOrOr), "Op")
        ELSE assignop(setOp(n, "Or", PrecAndAnd)))
  ELSE IF c = "^" THEN assignop(setOp(n, "Xor", PrecAdd))
  ELSE IF c = "<" THEN
       (IF c2 = "=" THEN setTok(setOp(nextch(n), "Leq", PrecCmp), "Op")
        ELSE IF c2 = "<" THEN assignop(setOp(nextch(n), "Shl", PrecMul))
        ELSE setTok(setOp(n, "Lss", PrecCmp), "Op"))
  ELSE IF c = ">" THEN
       (IF c2 = "=" THEN setTok(setOp(nextch(n), "Geq", PrecCmp), "Op")
        ELSE IF c2 = ">" THEN assignop(setOp(nextch(n), "Shr", PrecMul))
        ELSE setTok(setOp(n, "Gtr", PrecCmp), "Op"))
  ELSE IF c = "=" THEN
       (IF c2 = "=" THEN setTok(setOp(nextch(n), "Eql", PrecCmp), "Op")
        ELSE setTok(n, "Assign"))
  ELSE IF c = "!" THEN
       (IF c2 = "=" THEN setTok(setOp(nextch(n), "Neq", PrecCmp), "Op")
        ELSE setTok(setOp(n, "Not", 0), "Op"))
  ELSE redo(nextch(errorf(s3, <<"i","n","v","a","l","i","d"," ","c","h","a","r","a","c","t","e","r">>)), nlsemi)

\* Scanner.Next
ScanNext(s) == redo([s EXCEPT !.nlsemi = FALSE], s.nlsemi)

\* ------------------------------------------------------------------------
\* The scanner as a state machine: sc is the Scanner, an action is one call
\* of Next.  The parser state (ps), the pipeline of the print test (stage,
\* out) and the token set under construction (tokset, members) belong to
\* the other machines below.
\* ------------------------------------------------------------------------

VARIABLES sc, tokset, members, vp

vars == <<sc, tokset, members, vp>>

\* vp while no file is being verified
NoFile == [stage |-> "none"]

\* the lexemes the inputs are built from
Chunks == {
  <<"x">>, <<"o","p">>, <<"o","p","o","p">>, <<"L","i","t","e","r","a","l">>,
  <<"f","i","l","e","O","r","E","o","f">>, <<"r","e","t","u","r","n">>, <<"i","f">>,
  <<"1">>, <<"0","8">>, <<"1","_">>, <<"0","x">>, <<".">>,
  <<DQ>>, <<SQ>>, <<BQ>>, <<BSL>>, <<"q">>,
  <<" ">>, <<LF>>, <<"/","/">>, <<"/","*">>, <<"*","/">>, <<"/","*",LF,"*","/">>,
  <<"+">>, <<"+","+">>, <<"<">>, <<"=">>, <<")">>, <<";">>,
  <<"#">>, <<HighLetter>>
}

\* the number of lexemes of an input
MaxChunks == 3

RECURSIVE Inputs(_)
Inputs(n) == IF n = 0 THEN {<<>>} ELSE LET shorter == Inputs(n - 1) IN shorter \cup {c \o i : c \in Chunks, i \in shorter}

ScanInit ==
  /\ sc \in {ScannerInit(src) : src \in Inputs(MaxChunks)}
  /\ tokset = {}
  /\ members = {}
  /\ vp = NoFile

ScanStep ==
  /\ sc' = ScanNext(sc)
  /\ UNCHANGED <<tokset, members, vp>>

Spec == ScanInit /\ [][ScanStep]_vars

\* ------------------------------------------------------------------------
\* The scanner on number literals
\* ------------------------------------------------------------------------

\* the characters the number literals are built from
NumChars == {"0", "1", "_", "x", ".", "e", "+"}

\* the number of characters after the first digit
MaxNumLen == 4

RECURSIVE NumTails(_)
NumTails(n) == IF n = 0 THEN {<<>>} ELSE NumTails(n - 1) \cup {<<c>> \o t : c \in NumChars, t \in NumTails(n - 1)}

NumInit ==
  /\ sc \in {ScannerInit(<<d>> \o t) : d \in {"0", "1"}, t \in NumTails(MaxNumLen)}
  /\ tokset = {}
  /\ members = {}
  /\ vp = NoFile

SpecNum == NumInit /\ [][ScanStep]_vars

\* ------------------------------------------------------------------------
\* The scanner on interpreted strings of one backslash sequence
\* ------------------------------------------------------------------------

\* the sequences over A of length n, and of length 1 to n
RECURSIVE Exactly(_, _)
Exactly(A, n) == IF n = 0 THEN {<<>>} ELSE {<<c>> \o t : c \in A, t \in Exactly(A, n - 1)}
UpTo(A, n) == UNION {Exactly(A, k) : k \in 1..n}

\* what follows the backslash: one character, up to three octal digits,
\* x, u and U with up to two, four and eight hexadecimal digits
EscBodies ==
  Exactly({BSL, "a", "b", "f", "n", "r", "t", "v", DQ, SQ, "q", "e", "9", "x", "u", "U", " "}, 1)
    \cup UpTo({"0", "1", "3", "4", "7", "8"}, 3)
    \cup {<<"x">> \o t : t \in UpTo({"0", "1", "f", "F", "g"}, 2)}
    \cup {<<"u">> \o t : t \in UpTo({"0", "8", "d", "D", "F"}, 4)}
    \cup {<<"U">> \o t : t \in UpTo({"0", "F"}, 7)}
    \cup {<<"U">> \o t \o u : t \in Exactly({"0", "1", "F"}, 4), u \in Exactly({"0", "D", "F"}, 4)}

EscInit ==
  /\ sc \in {ScannerInit(<<DQ, BSL>> \o body \o <<DQ>>) : body \in EscBodies}
  /\ tokset = {}
  /\ members = {}
  /\ vp = NoFile

SpecEsc == EscInit /\ [][ScanStep]_vars

\* ------------------------------------------------------------------------
\* Properties of the scanner
\* ------------------------------------------------------------------------

\* the tokens after which a newline or the end of input implies a semicolon
SemiImplying == {"Name", "Literal", "Break", "Continue", "Return", "IncOp", "Rparen", "Rbrack", "Rbrace"}

newlineLit == <<"n","e","w","l","i","n","e">>
eofLit == <<"f","i","l","e","O","r","E","o","f">>

\* the first character of the token last returned (eof when there is none)
TokStartCh(s) == IF s.b >= 1 /\ s.b <= Len(s.src) THEN s.src[s.b] ELSE eof

\* the token last returned was scanned as an identifier
FromIdent(s) == s.tok # NoToken /\ (isLetter(TokStartCh(s)) \/ TokStartCh(s) \in RuneSelfChars)

\* the keyword whose text is lit, or Name
KeywordOf(lit) == IF \E i \in 1..Len(tokenString) : tokenString[i][2] = lit /\ IsKeyword(tokenString[i][1]) THEN tokenString[CHOOSE i \in 1..Len(tokenString) : tokenString[i][2] = lit][1] ELSE "Name"

\* a Semi the scanner inserted (not a ';' of the source)
InsertedSemi(s) == s.tok = "Semi" /\ s.lit \in {newlineLit, eofLit}

\* the index after the general comment opened at i, 0 when it is not
\* terminated
RECURSIVE CommentEnd(_, _)
CommentEnd(src, i) ==
  IF i + 1 > Len(src) THEN 0
  ELSE IF src[i] = "*" /\ src[i + 1] = "/" THEN i + 2
  ELSE CommentEnd(src, i + 1)

\* only spaces, tabs, carriage returns and comments lie between index i of
\* src and the next newline or the end of src
RECURSIVE BlankToEOL(_, _)
BlankToEOL(src, i) ==
  IF i > Len(src) THEN TRUE
  ELSE IF src[i] = LF THEN TRUE
  ELSE IF src[i] \in {" ", TAB, CR} THEN BlankToEOL(src, i + 1)
  ELSE IF src[i] = "/" /\ i + 1 <= Len(src) /\ src[i + 1] = "/" THEN TRUE
  ELSE IF src[i] = "/" /\ i + 1 <= Len(src) /\ src[i + 1] = "*"
       THEN LET e == CommentEnd(src, i + 2) IN
            IF e = 0 THEN TRUE
            ELSE IF \E k \in i..(e - 1) : src[k] = LF THEN TRUE
            ELSE BlankToEOL(src, e)
  ELSE FALSE

\* C1: repeated calls of Next reach EOF, which then stays EOF on every
\* further call, and a call made while input is left consumes some of it.
C1_ScannerTotality ==
  [][/\ (sc.tok = "EOF" => sc'.tok = "EOF")
     /\ (sc.r <= Len(sc.src) => sc'.r > sc.r)]_vars

\* C2: after a token of the semicolon-implying set that is followed only by
\* spaces, tabs, carriage returns and comments up to the next newline or the
\* end of input, the next call returns a Semi, which is the only one
\* inserted there; after a token outside the set a newline gives no Semi.
C2_SemicolonInsertion ==
  [][/\ (sc.tok \in SemiImplying /\ BlankToEOL(sc.src, sc.r) => InsertedSemi(sc'))
     /\ (InsertedSemi(sc) => ~InsertedSemi(sc'))
     /\ (sc.tok \in Tokens \ SemiImplying => ~(sc'.tok = "Semi" /\ sc'.lit = newlineLit))]_vars

\* C4: the text of a literal token scanned with bad == false, scanned alone,
\* gives one Literal of the same kind and text with bad == false, then the
\* semicolon of the end of input, then EOF.
C4_LiteralRoundTrip ==
  sc.tok = "Literal" /\ ~sc.bad =>
    LET r1 == ScanNext(ScannerInit(sc.lit))
        r2 == ScanNext(r1)
        r3 == ScanNext(r2)
    IN /\ r1.tok = "Literal" /\ r1.kind = sc.kind /\ r1.lit = sc.lit /\ ~r1.bad
       /\ r2.tok = "Semi" /\ r2.lit = eofLit
       /\ r3.tok = "EOF"

\* a comment of several lines ends where the scanner stands: the scanner
\* has dropped the segment (b = 0) and a /* with a newline after it was read
AfterLongComment(s) ==
  /\ s.b = 0
  /\ \E i \in 1..(s.r - 2) : s.src[i] = "/" /\ s.src[i + 1] = "*" /\ \E k \in (i + 2)..(s.r - 1) : s.src[k] = LF

\* C19: a Semi comes with the literal "semicolon" for a ; of the source,
\* "newline" when it is inserted at a newline or after a comment of several
\* lines, and "EOF" when it is inserted at the end of the input.
C19_SemiLiteral ==
  sc.tok = "Semi" =>
    IF sc.b = 0 THEN AfterLongComment(sc) /\ sc.lit = newlineLit
    ELSE IF TokStartCh(sc) = ";" THEN sc.lit = <<"s","e","m","i","c","o","l","o","n">>
    ELSE IF TokStartCh(sc) = LF THEN sc.lit = newlineLit
    ELSE TokStartCh(sc) = eof /\ sc.lit = <<"E","O","F">>

sepMsg == <<SQ,"_",SQ," ","m","u","s","t"," ","s","e","p","a","r","a","t","e"," ","s","u","c","c","e","s","s","i","v","e"," ","d","i","g","i","t","s">>

\* c is a digit of the literal x: a decimal digit, or a hexadecimal one
\* when x has the prefix 0x
DigitOf(x, c) == isDecimal(c) \/ (Len(x) >= 2 /\ x[1] = "0" /\ lower(x[2]) = "x" /\ isHex(c))

\* x[i] ends the base prefix of x
PrefixEnd(x, i) == i = 2 /\ x[1] = "0" /\ lower(x[2]) \in {"x", "o", "b"}

\* the indices of the separators of x that do not lie between two digits
NotBetweenDigits(x) == {i \in 1..Len(x) : x[i] = "_" /\ ~(i > 1 /\ i < Len(x) /\ DigitOf(x, x[i - 1]) /\ DigitOf(x, x[i + 1]))}

\* the indices of the separators of x that do not follow a digit or the
\* prefix, or that precede neither a digit nor a separator
NotSeparating(x) ==
  {i \in 1..Len(x) : x[i] = "_" /\ ~(i > 1 /\ (DigitOf(x, x[i - 1]) \/ PrefixEnd(x, i - 1)) /\ i < Len(x) /\ (DigitOf(x, x[i + 1]) \/ x[i + 1] = "_"))}

Least(S) == CHOOSE i \in S : \A j \in S : i <= j

\* the step scans a number literal with a separator
ScansSeparated == sc'.tok = "Literal" /\ sc'.kind \in {"IntLit", "FloatLit", "ImagLit"} /\ sc' # sc /\ "_" \in ToSet(sc'.lit)

\* the diagnostics of the step
StepErrs == SubSeq(sc'.errs, Len(sc.errs) + 1, Len(sc'.errs))

\* C26: a number literal with a separator is accepted, with no diagnostic,
\* only if every separator lies between two digits; otherwise exactly one
\* diagnostic "'_' must separate successive digits" is reported at the
\* column of the first separator that does not, and the literal is bad.
C26_SeparatorsBetweenDigits ==
  [][ScansSeparated =>
       IF NotBetweenDigits(sc'.lit) = {}
       THEN \A i \in 1..Len(StepErrs) : StepErrs[i].msg # sepMsg
       ELSE /\ sc'.bad
            /\ Len(StepErrs) = 1
            /\ StepErrs[1].msg = sepMsg
            /\ StepErrs[1].line = sc'.tline
            /\ StepErrs[1].col = sc'.tcol + Least(NotBetweenDigits(sc'.lit)) - 1]_vars

\* C26 (as the code has it): a number literal with a separator is accepted
\* only if every separator follows a digit or the base prefix and precedes a
\* digit; otherwise the literal is bad and exactly one diagnostic is
\* reported: the literal's other lexical error when it has one, and else
\* "'_' must separate successive digits" at the column of the first
\* separator that does not follow a digit or the prefix or that precedes
\* neither a digit nor a separator. A literal whose separators are all in
\* place gets no such diagnostic.
C26_SeparatorsAfterDigitOrPrefix ==
  [][ScansSeparated =>
       IF NotSeparating(sc'.lit) = {}
       THEN \A i \in 1..Len(StepErrs) : StepErrs[i].msg # sepMsg
       ELSE /\ sc'.bad
            /\ Len(StepErrs) = 1
            /\ StepErrs[1].msg = sepMsg =>
                 /\ StepErrs[1].line = sc'.tline
                 /\ StepErrs[1].col = sc'.tcol + Least(NotSeparating(sc'.lit)) - 1]_vars

\* a literal with a separator after the prefix was accepted, and one with a
\* misplaced separator has its diagnostic
C26_Witness ==
  /\ sc.tok = "Literal" /\ sc.kind \in {"IntLit", "FloatLit", "ImagLit"}
  /\ \/ sc.lit = <<"0","x","_","1">> /\ ~sc.bad /\ sc.errs = <<>>
     \/ sc.lit = <<"1","_","_","1">> /\ sc.bad /\ Len(sc.errs) = 1 /\ sc.errs[1].msg = sepMsg /\ sc.errs[1].col = sc.tcol + 2

\* the value of the digits ds in the base, kept at EscCap when larger
RECURSIVE EscNumber(_, _)
EscNumber(ds, base) ==
  IF ds = <<>> THEN 0
  ELSE The({IF v > EscCap THEN EscCap ELSE v
            : v \in {EscNumber(SubSeq(ds, 1, Len(ds) - 1), base) * base
                       + (IF isDecimal(ds[Len(ds)]) THEN DigitVal(ds[Len(ds)]) ELSE HexLetterVal(ds[Len(ds)]))}})

\* the characters from the second on
Rest(x) == SubSeq(x, 2, Len(x))

\* x is n hexadecimal digits
HexDigits(x, n) == Len(x) = n /\ \A i \in 1..n : isHex(x[i])

\* v is a Unicode scalar value
Scalar(v) == v <= MaxRune /\ ~(SurrogateMin <= v /\ v < SurrogateMax)

\* the numeric escapes: three octal digits up to 255, x and two, u and four,
\* U and eight hexadecimal digits of a scalar value
NumericEscape(x) ==
  \/ Len(x) = 3 /\ (\A i \in 1..3 : x[i] \in {"0", "1", "2", "3", "4", "5", "6", "7"}) /\ EscNumber(x, 8) <= 255
  \/ x[1] = "x" /\ HexDigits(Rest(x), 2)
  \/ x[1] = "u" /\ HexDigits(Rest(x), 4) /\ Scalar(EscNumber(Rest(x), 16))
  \/ x[1] = "U" /\ HexDigits(Rest(x), 8) /\ Scalar(EscNumber(Rest(x), 16))

\* the backslash sequence of the interpreted string that is the source
EscBody(s) == SubSeq(s.src, 3, Len(s.src) - 1)

\* the scanner has returned the string: without a diagnostic when ok, and
\* else as a bad literal with one diagnostic
StringScanned(ok) ==
  sc.tok = "Literal" /\ sc.kind = "StringLit" =>
    IF ok THEN ~sc.bad /\ sc.errs = <<>> ELSE sc.bad /\ Len(sc.errs) = 1

\* C28: in an interpreted string the backslash sequences accepted are
\* exactly \\ \a \b \f \n \r \t \v \" \' and the numeric escapes; every
\* other one reports one diagnostic and makes the literal bad.
C28_StringEscapes ==
  StringScanned((Len(EscBody(sc)) = 1 /\ EscBody(sc)[1] \in {BSL, "a", "b", "f", "n", "r", "t", "v", DQ, SQ}) \/ NumericEscape(EscBody(sc)))

\* C28 (as the code has it): in an interpreted string the backslash
\* sequences accepted are exactly \\ \a \b \f \n \r \t \v \" and the
\* numeric escapes; every other one, \' included, reports one diagnostic
\* and makes the literal bad.
C28_StringEscapesOwnQuote ==
  StringScanned((Len(EscBody(sc)) = 1 /\ EscBody(sc)[1] \in {BSL, "a", "b", "f", "n", "r", "t", "v", DQ}) \/ NumericEscape(EscBody(sc)))

\* the string "\'" has been returned bad with one diagnostic, unknown escape
C28_Witness ==
  /\ sc.tok = "Literal" /\ sc.kind = "StringLit"
  /\ EscBody(sc) = <<SQ>>
  /\ sc.bad /\ Len(sc.errs) = 1 /\ sc.errs[1].msg = <<"u","n","k","n","o","w","n"," ","e","s","c","a","p","e">>

\* (line, col) a is not later than (line, col) b
PosLeq(a, b) == a.line < b.line \/ (a.line = b.line /\ a.col <= b.col)

\* C5: the diagnostics reach the error handler in source order: none is
\* reported at a position earlier than one reported before it.
C5_DiagnosticsInSourceOrder ==
  \A i \in 1..Len(sc.errs) : \A j \in i..Len(sc.errs) : PosLeq(sc.errs[i], sc.errs[j])

\* C7: an identifier yields the keyword token when its text is one of the
\* 14 keywords and Name otherwise, never another token.
C7_IdentifierToken ==
  FromIdent(sc) => sc.tok = KeywordOf(Segment(sc))

\* C9: when Next has returned, the semicolon-pending flag is true exactly
\* when the token is in the semicolon-implying set.
C9_SemicolonPendingFlag ==
  sc.tok # NoToken => (sc.nlsemi <=> sc.tok \in SemiImplying)

\* C11: every call of the scanner's error handler passes a message that is
\* not empty and does not begin with "/". The scanner never has a mode flag
\* set, so no comment or directive is surfaced and every call reports a
\* lexical error: the first byte never makes an error look like a comment.
C11_ErrorNotComment ==
  \A i \in 1..Len(sc.errs) : sc.errs[i].msg # <<>> /\ sc.errs[i].msg[1] # "/"

\* a comment that does not end has been reported, and so has a message that
\* begins with a formatted argument
C11_Witness ==
  /\ \E i \in 1..Len(sc.errs) : sc.errs[i].msg[1] = "c" /\ sc.tok = "EOF"
  /\ \E i \in 1..Len(sc.errs) : HasPrefix(sc.errs[i].msg, baseName(16))

\* ------------------------------------------------------------------------
\* Token sets as a state machine: tokset is a set built by or-ing masks
\* 1<<t into it, as the set constants of the scanner and the parser are
\* written; members are the tokens put in so far.
\* ------------------------------------------------------------------------

\* the number of tokens put into a set
MaxSet == 2

SetInit ==
  /\ sc = ScannerInit(<<>>)
  /\ tokset = {}
  /\ members = {}
  /\ vp = NoFile

Put(t) ==
  /\ Cardinality(members \cup {t}) <= MaxSet
  /\ tokset' = BitOr(tokset, TokMask(t))
  /\ members' = members \cup {t}
  /\ UNCHANGED <<sc, vp>>

SetNext == \E t \in Tokens : Put(t)

SpecSet == SetInit /\ [][SetNext]_vars

\* C10: every token has an ordinal below 64, its mask 1<<t is non-zero and
\* differs from the mask of every other token, and Contains(set, t) holds
\* exactly for the tokens put into set; so it is for the scanner's
\* semicolon set and the parser's stop set.
C10_BitmaskSafety ==
  /\ \A t \in Tokens : TokOrd(t) < WordBits /\ TokMask(t) # {}
  /\ \A t \in Tokens : \A u \in Tokens \ {t} : TokMask(t) # TokMask(u)
  /\ \A t \in Tokens : Contains(tokset, t) <=> t \in members
  /\ \A t \in Tokens : Contains(identSemiSet, t) <=> t \in {"Break", "Continue", "Return", "Name"}
  /\ \A t \in Tokens : Contains(stopset, t) <=> t \in {"If", "Var"}

\* the parser's stop set has been built: it holds If and not Name
C10_Witness ==
  /\ members = {"If", "Var"}
  /\ tokset = stopset
  /\ Contains(tokset, "If")
  /\ ~Contains(tokset, "Name")

\* ------------------------------------------------------------------------
\* Syntax trees
\* ------------------------------------------------------------------------


\* the zero Pos
NoPos == MakePos(NoBase, 0, 0)

\* a node: its variant, its position, its own values (Value, Op, Kind, Bad)
\* as a sequence of strings, and its child nodes in field order
Node(type, npos, val, kids) == [type |-> type, pos |-> npos, val |-> val, kids |-> kids]

\* a nil node, and a slice of nodes
Nil == Node("nil", NoPos, <<>>, <<>>)
List(elems) == Node("list", NoPos, <<>>, elems)

BadExpr(npos) == Node("BadExpr", npos, <<>>, <<>>)
Name(npos, Value) == Node("Name", npos, Value, <<>>)
BasicLit(npos, Value, Kind, Bad) == Node("BasicLit", npos, <<Kind, IF Bad THEN "bad" ELSE "ok">> \o Value, <<>>)
SliceLit(npos, ElemType, Elems) == Node("SliceLit", npos, <<>>, <<ElemType, List(Elems)>>)
Operation(npos, Op, X, Y) == Node("Operation", npos, <<Op>>, <<X, Y>>)
SliceType(npos, Elem) == Node("SliceType", npos, <<>>, <<Elem>>)
SelectorExpr(npos, X, Sel) == Node("SelectorExpr", npos, <<>>, <<X, Sel>>)
IndexExpr(npos, X, Index) == Node("IndexExpr", npos, <<>>, <<X, Index>>)
CallExpr(npos, Func, ArgList) == Node("CallExpr", npos, <<>>, <<Func, List(ArgList)>>)
Field(FName, Type) == Node("Field", NoPos, <<>>, <<FName, Type>>)

\* ------------------------------------------------------------------------
\* Parser: the state p is the embedded Scanner with the diagnostics the
\* error handler has received (errs) and the way the call is going (halt):
\* "run", "loop" for a loop that repeats without end, "panic" for a run-time
\* panic, "exit" for os.Exit
\* ------------------------------------------------------------------------

\* a result: the parser after the call and the value returned
R(p, x) == [p |-> p, x |-> x]

halted(p, how) == [p EXCEPT !.halt = IF @ = "run" THEN how ELSE @]

\* parser.init
parserInit(src) == ScannerInit(src) @@ [file |-> NewFileBase(src_), base |-> NewFileBase(src_), halt |-> "run"]

\* the methods of the parser that are entered by name: Next of the embedded
\* Scanner, and Parse
RECURSIVE parser(_, _)
pNext(p) == parser("Next", p)

parserError(p, msg) == errorAt(p, parserPos(p), msg)

\* syntaxErrorAt: the message is completed with the text of the current
\* token, which the model leaves out
syntaxErrorAt(p, epos, msg) == errorAt(p, epos, msg)
syntaxError(p, msg) == syntaxErrorAt(p, parserPos(p), msg)

got(p, tok) == IF p.tok = tok THEN R(pNext(p), TRUE) ELSE R(p, FALSE)
want(p, tok) == IF got(p, tok).x THEN got(p, tok).p ELSE syntaxError(p, "expected token")

gotAssign(p) ==
  IF p.tok = "Define" THEN R(pNext(parserError(p, "expecting =")), TRUE)
  ELSE IF p.tok = "Assign" THEN R(pNext(p), TRUE)
  ELSE R(p, FALSE)

name(p) ==
  IF p.tok = "Name" THEN R(pNext(p), Name(parserPos(p), p.lit))
  ELSE R(parserError(p, "expecting name"), Name(parserPos(p), <<"t","o","k","e","n",".">>))

literal(p) ==
  IF p.tok = "Literal" THEN R(pNext(p), BasicLit(parserPos(p), p.lit, p.kind, p.bad))
  ELSE R(p, Nil)

\* whether a loop iteration that began at p and ended at q has changed
\* nothing but the diagnostics, so that every later iteration repeats it
Unmoved(p, q) == q.halt = "run" /\ [q EXCEPT !.errs = <<>>] = [p EXCEPT !.errs = <<>>]

\* ------------------------------------------------------------------------
\* Expressions and types
\* ------------------------------------------------------------------------

RECURSIVE binaryExpr(_, _)
RECURSIVE binaryExprLoop(_, _, _)
RECURSIVE unaryExpr(_)
RECURSIVE operand(_)
RECURSIVE pexpr(_)
RECURSIVE pexprLoop(_, _)
RECURSIVE typeOrNil(_)
RECURSIVE argList(_)
RECURSIVE argListLoop(_, _)
RECURSIVE sliceType(_)
RECURSIVE sliceLit(_)
RECURSIVE sliceLitLoop(_, _)

expr(p) == binaryExpr(p, 0)

\* the operation built for the operator at p from x and the right operand y
binaryOperation(p, x, y) ==
  IF p.op = "Lss" THEN Operation(parserPos(p), "Gtr", y, x)
  ELSE Operation(parserPos(p), p.op, x, y)

binaryExpr(p, prec) == The({binaryExprLoop(u.p, u.x, prec) : u \in {unaryExpr(p)}})

binaryExprLoop(p, x, prec) ==
  IF p.halt = "run" /\ p.tok = "Op" /\ p.prec > prec
  THEN The({binaryExprLoop(y.p, binaryOperation(p, x, y.x), prec) : y \in {binaryExpr(pNext(p), p.prec)}})
  ELSE R(p, x)

unaryExpr(p) ==
  IF p.halt # "run" THEN R(p, Nil)
  ELSE IF p.tok = "Op" /\ p.op \in {"Mul", "Add", "Sub", "Not"}
  THEN The({R(IF u.x.type = "BadExpr" THEN parserError(u.p, "bad expression") ELSE u.p,
              Operation(parserPos(p), p.op, u.x, Nil)) : u \in {unaryExpr(pNext(p))}})
  ELSE pexpr(p)

operand(p) ==
  IF p.tok = "Name" THEN name(p)
  ELSE IF p.tok = "Lbrack" THEN sliceLit(p)
  ELSE IF p.tok = "Literal" THEN literal(p)
  ELSE R(p, BadExpr(NoPos))

pexpr(p) == The({pexprLoop(o.p, o.x) : o \in {operand(p)}})

pexprLoop(p, x) ==
  IF p.halt # "run" THEN R(p, x)
  ELSE IF p.tok = "Dot" THEN
    IF pNext(p).tok = "Name"
    THEN The({pexprLoop(n.p, SelectorExpr(parserPos(p), x, n.x)) : n \in {name(pNext(p))}})
    ELSE pexprLoop(syntaxError(pNext(p), "expecting name or ("), x)
  ELSE IF p.tok = "Lbrack" THEN
    The({pexprLoop(want(i.p, "Rbrack"), IndexExpr(parserPos(p), x, i.x)) : i \in {expr(pNext(p))}})
  ELSE IF p.tok = "Lparen" THEN
    The({pexprLoop(a.p, CallExpr(parserPos(p), x, a.x)) : a \in {argList(p)}})
  ELSE R(p, x)

typeOrNil(p) ==
  IF p.tok = "Name" THEN name(p)
  ELSE IF p.tok = "Lbrack" THEN sliceType(p)
  ELSE R(p, Nil)

argList(p) ==
  IF got(want(p, "Lparen"), "Rparen").x THEN R(got(want(p, "Lparen"), "Rparen").p, <<>>)
  ELSE The({argListLoop(e.p, <<e.x>>) : e \in {expr(want(p, "Lparen"))}})

\* for !p.got(Rparen) { p.want(Comma); list = append(list, p.expr()) }
argListLoop(p, list) ==
  IF p.halt # "run" THEN R(p, list)
  ELSE IF p.tok = "Rparen" THEN R(pNext(p), list)
  ELSE The({IF Unmoved(p, e.p) THEN R(halted(e.p, "loop"), list)
            ELSE argListLoop(e.p, Append(list, e.x)) : e \in {expr(want(p, "Comma"))}})

\* the element type of a slice type or literal, read after [ and ]
sliceElem(t) == IF t.x = Nil THEN R(syntaxError(t.p, "invalid element type in slice"), t.x) ELSE t

sliceType(p) ==
  The({R(t.p, SliceType(parserPos(p), t.x)) : t \in {sliceElem(typeOrNil(want(pNext(p), "Rbrack")))}})

sliceLitElems(p) ==
  IF got(p, "Rbrace").x THEN R(got(p, "Rbrace").p, <<>>)
  ELSE The({sliceLitLoop(e.p, <<e.x>>) : e \in {expr(p)}})

sliceLit(p) ==
  The({The({R(l.p, SliceLit(parserPos(p), t.x, l.x)) : l \in {sliceLitElems(want(t.p, "Lbrace"))}})
         : t \in {sliceElem(typeOrNil(want(pNext(p), "Rbrack")))}})

\* for !p.got(Rbrace) { p.want(Comma); l.Elems = append(l.Elems, p.expr()) }
sliceLitLoop(p, list) ==
  IF p.halt # "run" THEN R(p, list)
  ELSE IF p.tok = "Rbrace" THEN R(pNext(p), list)
  ELSE The({IF Unmoved(p, e.p) THEN R(halted(e.p, "loop"), list)
            ELSE sliceLitLoop(e.p, Append(list, e.x)) : e \in {expr(want(p, "Comma"))}})

\* ------------------------------------------------------------------------
\* Statements
\* ------------------------------------------------------------------------

ExprStmt(npos, X) == Node("ExprStmt", npos, <<>>, <<X>>)
EmptyStmt(npos) == Node("EmptyStmt", npos, <<>>, <<>>)
BreakStmt(npos) == Node("BreakStmt", npos, <<>>, <<>>)
ReturnStmt(npos, Return) == Node("ReturnStmt", npos, <<>>, <<Return>>)
DeclStmt(npos, DeclList) == Node("DeclStmt", npos, <<>>, <<List(DeclList)>>)
DefineStmt(npos, Lhs, Rhs) == Node("DefineStmt", npos, <<>>, <<Lhs, Rhs>>)
AssignStmt(npos, Op, Lhs, Rhs) == Node("AssignStmt", npos, <<Op>>, <<Lhs, Rhs>>)
IfStmt(npos, Cond, Block, Else) == Node("IfStmt", npos, <<>>, <<Cond, Block, Else>>)
ForStmt(npos, FInit, Cond, Post, Body) == Node("ForStmt", npos, <<>>, <<FInit, Cond, Post, Body>>)
WhileStmt(npos, Cond, Body) == Node("WhileStmt", npos, <<>>, <<Cond, Body>>)
BlockStmt(npos, StmtList) == Node("BlockStmt", npos, <<>>, <<List(StmtList)>>)
\* the nil *Group: the declaration is not part of a group
NoGroup == "nil"

VarDecl(npos, Group, NameList, Type, Values) == Node("VarDecl", npos, <<Group>>, <<NameList, Type, Values>>)

\* appendGroup: d is the declaration f(nil) returned, the group being nil
\* whatever follows the keyword; a nil declaration is not appended
appendGroup(list, d) == IF d = Nil THEN list ELSE Append(list, d)

varDecl(p, group) ==
  The({IF gotAssign(n.p).x
       THEN The({R(v.p, VarDecl(parserPos(p), group, n.x, Nil, v.x)) : v \in {expr(gotAssign(n.p).p)}})
       ELSE IF n.p.tok # "Name" THEN R(pNext(syntaxError(n.p, "expecting name")), Nil)
       ELSE The({R(t.p, VarDecl(parserPos(p), group, n.x, t.x, Nil)) : t \in {name(n.p)}})
         : n \in {name(p)}})

\* the rest of simpleStmt once the left-hand side ls has been read
simpleStmtRest(p, ls) ==
  IF p.tok \in {"AssignOp", "Assign"}
  THEN The({R(r.p, AssignStmt(parserPos(p), IF p.tok = "Assign" THEN "NoneOp" ELSE p.op, ls, r.x))
              : r \in {expr(pNext(p))}})
  ELSE IF p.tok = "Define"
  THEN The({R(r.p, DefineStmt(parserPos(p), ls, r.x)) : r \in {expr(pNext(p))}})
  ELSE R(p, ExprStmt(ls.pos, ls))

simpleStmt(p, ls) == The({simpleStmtRest(l.p, l.x) : l \in {IF ls = Nil THEN expr(p) ELSE R(p, ls)}})

declStmt(p) == The({R(d.p, DeclStmt(parserPos(p), appendGroup(<<>>, d.x))) : d \in {varDecl(pNext(p), NoGroup)}})

badExpr(p) == BadExpr(parserPos(p))

\* header, up to the init statement: h carries the parser, the three
\* results, condStmt and semi.pos
headerInit(p) ==
  IF p.tok # "Semi"
  THEN The({[p |-> i.p, init |-> i.x, cond |-> Nil, post |-> Nil, condStmt |-> Nil, semi |-> NoPos]
              : i \in {simpleStmt(IF p.tok = "Var" THEN syntaxError(pNext(p), "var declaration not allowed in initializer") ELSE p, Nil)}})
  ELSE [p |-> p, init |-> Nil, cond |-> Nil, post |-> Nil, condStmt |-> Nil, semi |-> NoPos]

\* the separator after the init statement
headerSemi(h) ==
  IF h.p.tok = "Semi" THEN [h EXCEPT !.semi = parserPos(h.p), !.p = pNext(h.p)]
  ELSE [h EXCEPT !.p = want(h.p, "Lbrace")]

headerPost(h) ==
  IF h.p.tok # "Lbrace"
  THEN The({[h EXCEPT !.post = s.x,
                      !.p = IF s.x.type = "AssignStmt" /\ s.x.val = <<"Def">>
                            THEN syntaxErrorAt(s.p, s.x.pos, "cannot declare in post statement of for loop")
                            ELSE s.p] : s \in {simpleStmt(h.p, Nil)}})
  ELSE h

headerFor(h) ==
  IF h.p.tok # "Semi" /\ h.p.tok = "Lbrace"
  THEN [h EXCEPT !.p = syntaxError(h.p, "expecting for loop condition")]
  ELSE IF h.p.tok # "Semi"
  THEN The({headerPost([h EXCEPT !.condStmt = s.x, !.p = want(s.p, "Semi")]) : s \in {simpleStmt(h.p, Nil)}})
  ELSE headerPost([h EXCEPT !.p = want(h.p, "Semi")])

headerCond(h, keyword) ==
  IF h.p.tok # "Lbrace" THEN
    IF keyword = "For" THEN headerFor(headerSemi(h))
    ELSE IF headerSemi(h).p.tok # "Lbrace"
    THEN The({[headerSemi(h) EXCEPT !.condStmt = s.x, !.p = s.p] : s \in {simpleStmt(headerSemi(h).p, Nil)}})
    ELSE headerSemi(h)
  ELSE [h EXCEPT !.condStmt = h.init, !.init = Nil]

\* the label done of header: unpack condStmt
headerDone(h, keyword) ==
  IF h.condStmt = Nil THEN
    IF keyword = "If" /\ h.semi # NoPos
    THEN [h EXCEPT !.p = syntaxErrorAt(h.p, h.semi, "missing condition in if statement"), !.cond = BadExpr(h.semi)]
    ELSE h
  ELSE IF h.condStmt.type = "ExprStmt" THEN [h EXCEPT !.cond = h.condStmt.kids[1]]
  ELSE [h EXCEPT !.p = syntaxErrorAt(h.p, h.condStmt.pos, "cannot use statement as value")]

header(p, keyword) ==
  IF want(p, keyword).tok = "Lbrace"
  THEN IF keyword = "If"
       THEN [p |-> syntaxError(want(p, keyword), "missing condition in if statement"), init |-> Nil,
             cond |-> badExpr(want(p, keyword)), post |-> Nil, condStmt |-> Nil, semi |-> NoPos]
       ELSE [p |-> want(p, keyword), init |-> Nil, cond |-> Nil, post |-> Nil, condStmt |-> Nil, semi |-> NoPos]
  ELSE headerDone(headerCond(headerInit(want(p, keyword)), keyword), keyword)

RECURSIVE stmtOrNil(_)
RECURSIVE blockStmt(_)
RECURSIVE stmtList(_, _)
RECURSIVE ifStmt(_)

\* the end of a statement in stmtList: ";" is optional before "}"
stmtEnd(p) ==
  IF got(p, "Semi").x THEN got(p, "Semi").p
  ELSE IF p.tok # "Rbrace" THEN got(syntaxError(p, "at end of statement"), "Semi").p
  ELSE p

stmtList(p, l) ==
  IF p.halt = "run" /\ p.tok # "EOF" /\ p.tok # "Rbrace"
  THEN The({IF s.x = Nil THEN R(s.p, l) ELSE stmtList(stmtEnd(s.p), Append(l, s.x)) : s \in {stmtOrNil(p)}})
  ELSE R(p, l)

blockStmt(p) ==
  IF ~got(p, "Lbrace").x THEN R(syntaxError(p, "expecting '{'"), Nil)
  ELSE The({R(want(l.p, "Rbrace"), BlockStmt(parserPos(p), l.x)) : l \in {stmtList(got(p, "Lbrace").p, <<>>)}})

forStmt(p) ==
  The({The({R(b.p, ForStmt(parserPos(p), h.init, h.cond, h.post, b.x)) : b \in {blockStmt(h.p)}})
         : h \in {header(p, "For")}})

whileStmt(p) ==
  The({The({R(b.p, WhileStmt(parserPos(p), c.x, b.x)) : b \in {blockStmt(c.p)}}) : c \in {expr(p)}})

\* the else branch of ifStmt
ifElse(p) ==
  IF ~got(p, "Else").x \/ p.halt # "run" THEN R(p, Nil)
  ELSE IF got(p, "Else").p.tok = "If" THEN ifStmt(got(p, "Else").p)
  ELSE IF got(p, "Else").p.tok = "Lbrace" THEN blockStmt(got(p, "Else").p)
  ELSE R(syntaxError(got(p, "Else").p, "else must be followed by if or statement block"), Nil)

ifStmt(p) ==
  The({The({The({R(e.p, IfStmt(parserPos(p), h.cond, b.x, e.x)) : e \in {ifElse(b.p)}})
              : b \in {blockStmt(h.p)}}) : h \in {header(p, "If")}})

returnStmt(p) ==
  IF pNext(p).tok # "Semi" /\ pNext(p).tok # "Rbrace"
  THEN The({R(e.p, ReturnStmt(parserPos(p), e.x)) : e \in {expr(pNext(p))}})
  ELSE R(pNext(p), ReturnStmt(parserPos(p), Nil))

stmtOrNil(p) ==
  IF p.halt # "run" THEN R(p, Nil)
  ELSE IF p.tok = "Name" THEN The({simpleStmt(lhs.p, lhs.x) : lhs \in {expr(p)}})
  ELSE IF p.tok = "Var" THEN declStmt(p)
  ELSE IF p.tok = "Lbrace" THEN blockStmt(p)
  ELSE IF p.tok = "Literal" THEN simpleStmt(p, Nil)
  ELSE IF p.tok = "For" THEN forStmt(p)
  ELSE IF p.tok = "While" THEN whileStmt(pNext(p))
  ELSE IF p.tok = "If" THEN ifStmt(p)
  ELSE IF p.tok = "Return" THEN returnStmt(p)
  ELSE IF p.tok = "Break" THEN R(pNext(p), BreakStmt(parserPos(p)))
  ELSE IF p.tok = "Semi" THEN R(p, EmptyStmt(parserPos(p)))
  ELSE R(p, Nil)

\* ------------------------------------------------------------------------
\* Declarations
\* ------------------------------------------------------------------------

TypeDecl(npos, Group, TName, Alias, Type) == Node("TypeDecl", npos, <<IF Alias THEN "alias" ELSE "type", Group>>, <<TName, Type>>)
FuncDecl(npos, FName, Param, Return, Body) == Node("FuncDecl", npos, <<>>, <<FName, List(Param), Return, Body>>)
OperDecl(npos, TypeL, Oper, TypeR, Return, Body) == Node("OperDecl", npos, <<Oper>>, <<TypeL, TypeR, Return, Body>>)
File(npos, SpaceName, DeclList) == Node("File", npos, <<>>, <<SpaceName, List(DeclList)>>)

typeDecl(p, group) ==
  The({The({IF t.x = Nil
            THEN R(syntaxError(t.p, "in type declaration"), TypeDecl(parserPos(p), group, n.x, gotAssign(n.p).x, badExpr(t.p)))
            ELSE R(t.p, TypeDecl(parserPos(p), group, n.x, gotAssign(n.p).x, t.x))
              : t \in {typeOrNil(gotAssign(n.p).p)}}) : n \in {name(p)}})

singleParam(p) ==
  IF ~got(p, "Lparen").x THEN R(syntaxError(p, "expecting '('"), Nil)
  ELSE IF got(p, "Lparen").p.tok # "Name" THEN R(syntaxError(got(p, "Lparen").p, "expecting receiver"), Nil)
  ELSE The({IF n.p.tok # "Name" THEN R(syntaxError(n.p, "expecting type"), Nil)
            ELSE The({R(want(t.p, "Rparen"), Field(n.x, t.x)) : t \in {name(n.p)}})
              : n \in {name(got(p, "Lparen").p)}})

RECURSIVE paramlist(_, _)
\* the parameter read at the label redo, after its name n
paramlistType(n, list) ==
  IF n.p.tok = "Name" THEN
    The({IF t.p.tok = "Comma" THEN paramlist(pNext(t.p), Append(list, Field(n.x, t.x)))
         ELSE IF t.p.tok = "Rparen" THEN R(pNext(t.p), Append(list, Field(n.x, t.x)))
         ELSE R(pNext(syntaxError(t.p, "expecting comma or ')'")), <<>>) : t \in {typeOrNil(n.p)}})
  ELSE R(pNext(syntaxError(n.p, "expecting type")), <<>>)

paramlist(p, list) ==
  IF p.halt # "run" THEN R(p, <<>>)
  ELSE IF p.tok = "Name" THEN paramlistType(name(p), list)
  ELSE IF p.tok = "Rparen" THEN R(pNext(p), <<>>)
  ELSE R(pNext(syntaxError(p, "expecting parameter or ')'")), <<>>)

\* funcType: the text of the return type is read through type assertions
funcType(p) ==
  The({The({[p |-> IF t.x.type = "SliceType" /\ t.x.kids[1].type # "Name" THEN halted(t.p, "panic") ELSE t.p,
             params |-> l.x, ftype |-> t.x] : t \in {typeOrNil(l.p)}})
         : l \in {paramlist(want(p, "Lparen"), <<>>)}})

funcDeclOrNil(p) ==
  IF p.tok # "Name" THEN R(errorAt(p, parserPos(p), "expecting name"), Nil)
  ELSE The({The({IF f.p.tok = "Lbrace"
                 THEN The({R(b.p, FuncDecl(parserPos(p), n.x, f.params, f.ftype, b.x)) : b \in {blockStmt(f.p)}})
                 ELSE R(f.p, FuncDecl(parserPos(p), n.x, f.params, f.ftype, Nil))
                   : f \in {funcType(n.p)}}) : n \in {name(p)}})

\* Token.IsOperator: the operator-name tokens lie between Operator_beg and
\* Operator_end, and the token enumeration of the scanner has none
IsOperator(tok) == FALSE

\* operDecl after the operator name: the operand names are read through
\* d.TypeL and d.TypeR
operDeclRest(p, dpos, l) ==
  The({IF l.x = Nil \/ r.x = Nil THEN R(halted(r.p, "panic"), Nil)
       ELSE IF r.p.tok # "Name" THEN R(errorAt(r.p, parserPos(r.p), "expecting type"), Nil)
       ELSE The({The({R(b.p, OperDecl(dpos, l.x, p.tok, r.x, t.x, b.x)) : b \in {blockStmt(t.p)}})
                   : t \in {name(r.p)}})
         : r \in {singleParam(pNext(p))}})

operDecl(p) ==
  The({IF ~IsOperator(l.p.tok) THEN R(errorAt(l.p, parserPos(l.p), "Unexpected Operator name"), Nil)
       ELSE operDeclRest(l.p, parserPos(p), l) : l \in {singleParam(p)}})

\* the loop of top-level declarations
RECURSIVE declList(_, _)
declList(p, list) ==
  IF p.halt # "run" \/ p.tok = "EOF" THEN R(p, list)
  ELSE IF p.tok = "Type" THEN The({declList(d.p, appendGroup(list, d.x)) : d \in {typeDecl(pNext(p), NoGroup)}})
  ELSE IF p.tok = "Var" THEN The({declList(d.p, appendGroup(list, d.x)) : d \in {varDecl(pNext(p), NoGroup)}})
  ELSE IF p.tok = "Func" THEN The({declList(d.p, appendGroup(list, d.x)) : d \in {funcDeclOrNil(pNext(p))}})
  ELSE IF p.tok = "Oper" THEN The({declList(d.p, appendGroup(list, d.x)) : d \in {operDecl(pNext(p))}})
  ELSE IF p.tok = "Semi" THEN declList(pNext(p), list)
  ELSE declList(pNext(errorAt(p, parserPos(p), "ERROR: non-declaration statement outside function body")), list)

\* parser.EOF: the source file
EOF(p) ==
  IF ~got(p, "Space").x THEN R(halted(p, "exit"), Nil)
  ELSE The({The({R(l.p, File(parserPos(p), n.x, l.x)) : l \in {declList(want(n.p, "Semi"), <<>>)}})
              : n \in {name(got(p, "Space").p)}})

\* ParseExprFrom once the parser is initialised: the expression, the
\* semicolon a newline inserted, and the end of the input
exprEOF(p) ==
  The({The({[x |-> e.x, err |-> w.errs # <<>>]
              : w \in {want(IF e.p.tok = "Semi" /\ e.p.lit = <<LF>> THEN pNext(e.p) ELSE e.p, "EOF")}})
         : e \in {expr(pNext(p))}})

parser(fn, p) ==
  IF fn = "Next" THEN (IF p.halt = "run" THEN The({handle([q EXCEPT !.errs = p.errs], q.errs, 1) : q \in {ScanNext([p EXCEPT !.errs = <<>>])}}) ELSE p)
  ELSE IF fn = "ParseExprFrom" THEN exprEOF(p)
  ELSE EOF(pNext(p))

Parse(src) == parser("Parse", parserInit(src))

\* ------------------------------------------------------------------------
\* Printer: pr.output is the text written so far, pr.halt is "run" or
\* "panic"
\* ------------------------------------------------------------------------

\* Operator.String: the texts of opString; an operator the table has no
\* text for gives the empty string
opString(op) ==
  CASE op = "Def" -> <<":">>
    [] op = "Not" -> <<"!">>
    [] op = "OrOr" -> <<"|", "|">>
    [] op = "AndAnd" -> <<"&", "&">>
    [] op = "Eql" -> <<"=", "=">>
    [] op = "Neq" -> <<"!", "=">>
    [] op = "Lss" -> <<"<">>
    [] op = "Leq" -> <<"<", "=">>
    [] op = "Gtr" -> <<">">>
    [] op = "Geq" -> <<">", "=">>
    [] op = "Add" -> <<"+">>
    [] op = "Sub" -> <<"-">>
    [] op = "Mul" -> <<"*">>
    [] op = "Rem" -> <<"%">>
    [] OTHER -> <<>>

\* the forms of Fprint
LineForm == 1
ShortForm == 2

printerInit(form) == [output |-> <<>>, form |-> form, indent |-> 0, nlcount |-> 0, pending |-> <<>>, lastTok |-> NoToken, linebreaks |-> form = 0, halt |-> "run"]

write(pr, data) == [pr EXCEPT !.output = @ \o data]

writeBytes(pr, data) ==
  IF pr.halt # "run" THEN pr
  ELSE IF Len(data) = 0 THEN halted(pr, "panic")
  ELSE [write(IF pr.nlcount > 0 /\ pr.indent > 0 THEN write(pr, [i \in 1..pr.indent |-> TAB]) ELSE pr, data) EXCEPT !.nlcount = 0]

impliesSemi(tok) == tok \in {"Name", "Break", "Continue", "Return", "Rparen", "Rbrack", "Rbrace"}

addWhitespace(pr, kind) ==
  IF pr.halt # "run" THEN pr
  ELSE [pr EXCEPT !.pending = Append(@, [last |-> pr.lastTok, kind |-> kind]),
                  !.lastTok = IF kind = "semi" THEN "Semi" ELSE IF kind = "newline" THEN NoToken ELSE @]

\* the first loop of flush: eliminate semis, from the last pending entry down
RECURSIVE flushSemis(_, _, _, _)
flushSemis(pending, i, sawNewline, sawParen) ==
  IF i = 0 THEN pending
  ELSE IF pending[i].kind = "semi" THEN
    IF sawParen THEN flushSemis([pending EXCEPT ![i].kind = "none"], i - 1, sawNewline, FALSE)
    ELSE IF sawNewline /\ impliesSemi(pending[i].last)
    THEN flushSemis([pending EXCEPT ![i].kind = "none"], i - 1, FALSE, sawParen)
    ELSE flushSemis(pending, i - 1, sawNewline, sawParen)
  ELSE IF pending[i].kind = "newline" THEN flushSemis(pending, i - 1, TRUE, sawParen)
  ELSE flushSemis(pending, i - 1, sawNewline, sawParen)

\* the second loop of flush: print pending
RECURSIVE flushPending(_, _, _, _)
flushPending(pr, pending, i, prev) ==
  IF i > Len(pending) \/ pr.halt # "run" THEN pr
  ELSE IF pending[i].kind = "semi" THEN flushPending(writeBytes(pr, <<";">>), pending, i + 1, "semi")
  ELSE IF pending[i].kind = "blank" /\ prev # "blank" THEN flushPending(writeBytes(pr, <<" ">>), pending, i + 1, "blank")
  ELSE IF pending[i].kind = "newline" /\ pr.nlcount <= 1
  THEN flushPending([write(pr, <<LF>>) EXCEPT !.nlcount = @ + 1], pending, i + 1, "newline")
  ELSE IF pending[i].kind = "indent" THEN flushPending([pr EXCEPT !.indent = @ + 1], pending, i + 1, prev)
  ELSE IF pending[i].kind = "outdent"
  THEN flushPending(IF pr.indent = 0 THEN halted(pr, "panic") ELSE [pr EXCEPT !.indent = @ - 1], pending, i + 1, prev)
  ELSE flushPending(pr, pending, i + 1, prev)

flush(pr, next) ==
  IF pr.halt # "run" THEN pr
  ELSE [flushPending(pr, flushSemis(pr.pending, Len(pr.pending), next = "EOF", next \in {"Rparen", "Rbrace"}), 1, "none")
          EXCEPT !.pending = <<>>]

\* print of a token.Token with its text s
printText(pr, tok, s) ==
  IF pr.halt # "run" THEN pr
  ELSE IF Len(s) = 0 THEN halted(pr, "panic")
  ELSE IF tok = "Semi" THEN addWhitespace(pr, "semi")
  ELSE [writeBytes(flush(pr, tok), s) EXCEPT !.nlcount = 0, !.lastTok = tok]

\* print of a token.Token other than Name, of a Name with its value, of a
\* token.Operator and of a ctrlSymbol
printToken(pr, tok) == printText(pr, tok, TokenText(tok))
printName(pr, s) == printText(pr, "Name", s)
printOperator(pr, op) == IF op # "NoneOp" THEN writeBytes(flush(pr, "Op"), opString(op)) ELSE pr
printCtrl(pr, x) == addWhitespace(pr, IF x = "newline" /\ ~pr.linebreaks THEN "blank" ELSE x)

RECURSIVE printNode(_, _)
RECURSIVE printExprList(_, _, _)
RECURSIVE printStmtList(_, _, _, _)
RECURSIVE printDeclList(_, _, _)
RECURSIVE printParameterList(_, _, _)

\* groupFor: the keyword of a declaration; its group is always nil
groupFor(d) ==
  CASE d.type = "ImportDecl" -> "Import"
    [] d.type = "TypeDecl" -> "Type"
    [] d.type = "VarDecl" -> "Var"
    [] d.type = "FuncDecl" -> "Func"
    [] OTHER -> NoToken

\* printDecl of the declarations list, none of which is in a group
printDecl(pr, list) ==
  IF Len(list) # 1 \/ groupFor(list[1]) = NoToken THEN halted(pr, "panic")
  ELSE printNode(pr, list[1])

\* the loop of printDeclList at index i, and the call after it
printDeclList(pr, list, i) ==
  IF i > Len(list) THEN printDecl(pr, <<list[Len(list)]>>)
  ELSE IF groupFor(list[i]) = NoToken THEN halted(pr, "panic")
  ELSE IF i = 1 THEN printDeclList(pr, list, 2)
  ELSE IF groupFor(list[i]) # groupFor(list[i - 1]) \/ groupFor(list[i]) = "Func"
  THEN printDeclList(printCtrl(printCtrl(printToken(printDecl(pr, <<list[i - 1]>>), "Semi"), "newline"), "newline"), list, i + 1)
  ELSE printDeclList(printCtrl(printToken(printDecl(pr, <<list[i - 1]>>), "Semi"), "newline"), list, i + 1)

printExprList(pr, list, i) ==
  IF i > Len(list) THEN pr
  ELSE printExprList(printNode(IF i > 1 THEN printCtrl(printToken(pr, "Comma"), "blank") ELSE pr, list[i]), list, i + 1)

printStmtList(pr, list, i, braces) ==
  IF i > Len(list) THEN pr
  ELSE IF i < Len(list)
  THEN printStmtList(printCtrl(printToken(printNode(pr, list[i]), "Semi"), "newline"), list, i + 1, braces)
  ELSE IF braces /\ list[i].type = "EmptyStmt"
  THEN printToken(printNode(printToken(printNode(pr, list[i]), "Semi"), list[i]), "Semi")
  ELSE printToken(printNode(pr, list[i]), "Semi")

\* the parameters from index i on: two fields of the parser never share a
\* Type pointer, so every field prints its type
printParameterList(pr, list, i) ==
  IF i > Len(list) THEN printToken(pr, "Rparen")
  ELSE IF list[i].kids[1] # Nil
  THEN printParameterList(printNode(printCtrl(printNode(IF i > 1 THEN printCtrl(printToken(pr, "Comma"), "blank") ELSE pr,
                                                        list[i].kids[1]), "blank"), list[i].kids[2]), list, i + 1)
  ELSE printParameterList(printNode(IF i > 1 THEN printCtrl(printToken(pr, "Comma"), "blank") ELSE pr, list[i].kids[2]), list, i + 1)

printSignature(pr, fn) == printNode(printParameterList(printToken(pr, "Lparen"), fn.kids[2].kids, 1), fn.kids[3])

\* print of a *BlockStmt field: a nil pointer is dereferenced
printBlock(pr, b) == IF b = Nil THEN halted(pr, "panic") ELSE printNode(pr, b)

printBlockStmt(pr, n) ==
  IF Len(n.kids[1].kids) > 0
  THEN printToken(printCtrl(printCtrl(printStmtList(printCtrl(printCtrl(printToken(pr, "Lbrace"), "newline"), "indent"),
                                                    n.kids[1].kids, 1, TRUE), "outdent"), "newline"), "Rbrace")
  ELSE printToken(printToken(pr, "Lbrace"), "Rbrace")

printIfStmt(pr, n) ==
  The({IF n.kids[3] # Nil THEN printNode(printCtrl(printToken(printCtrl(q, "blank"), "Else"), "blank"), n.kids[3]) ELSE q
         : q \in {printBlock(printCtrl(printNode(printCtrl(printToken(pr, "If"), "blank"), n.kids[1]), "blank"), n.kids[2])}})

\* the clauses of a ForStmt
printForClauses(pr, n) ==
  IF n.kids[1] = Nil /\ n.kids[3] = Nil
  THEN IF n.kids[2] # Nil THEN printCtrl(printNode(pr, n.kids[2]), "blank") ELSE pr
  ELSE The({IF n.kids[3] # Nil THEN printCtrl(printNode(q, n.kids[3]), "blank") ELSE q
              : q \in {printCtrl(printToken(printNode(printCtrl(printToken(printNode(pr, n.kids[1]), "Semi"), "blank"),
                                                      n.kids[2]), "Semi"), "blank")}})

printForStmt(pr, n) == printBlock(printForClauses(printCtrl(printToken(pr, "For"), "blank"), n), n.kids[4])

printAssignStmt(pr, n) ==
  IF n.kids[2] = Nil THEN printOperator(printOperator(printNode(pr, n.kids[1]), n.val[1]), n.val[1])
  ELSE printNode(printCtrl(printToken(printOperator(printCtrl(printNode(pr, n.kids[1]), "blank"), n.val[1]), "Assign"), "blank"), n.kids[2])

printTypeDecl(pr, n) ==
  printNode(IF n.val[1] = "alias"
            THEN printCtrl(printToken(printCtrl(printNode(printCtrl(printToken(pr, "Type"), "blank"), n.kids[1]), "blank"), "Assign"), "blank")
            ELSE printCtrl(printNode(printCtrl(printToken(pr, "Type"), "blank"), n.kids[1]), "blank"),
            n.kids[2])

printVarDecl(pr, n) ==
  The({IF n.kids[3] # Nil THEN printNode(printCtrl(printToken(printCtrl(q, "blank"), "Assign"), "blank"), n.kids[3]) ELSE q
         : q \in {IF n.kids[2] # Nil
                  THEN printNode(printCtrl(printNode(printCtrl(printToken(pr, "Var"), "blank"), n.kids[1]), "blank"), n.kids[2])
                  ELSE printNode(printCtrl(printToken(pr, "Var"), "blank"), n.kids[1])}})

printFuncDecl(pr, n) ==
  The({IF n.kids[4] # Nil THEN printNode(printCtrl(q, "blank"), n.kids[4]) ELSE q
         : q \in {printSignature(printNode(printCtrl(printToken(pr, "Func"), "blank"), n.kids[1]), n)}})

printFile(pr, n) ==
  IF Len(n.kids[2].kids) > 0
  THEN printDeclList(printCtrl(printCtrl(printToken(printNode(printCtrl(printToken(pr, "Space"), "blank"), n.kids[1]), "Semi"),
                                         "newline"), "newline"), n.kids[2].kids, 1)
  ELSE printNode(printCtrl(printToken(pr, "Space"), "blank"), n.kids[1])

\* printRawNode
printNode(pr, n) ==
  IF pr.halt # "run" \/ n.type \in {"nil", "EmptyStmt"} THEN pr
  ELSE IF n.type = "BadExpr" THEN printName(pr, <<"<", "b", "a", "d", " ", "e", "x", "p", "r", ">">>)
  ELSE IF n.type = "Name" THEN printName(pr, n.val)
  ELSE IF n.type = "BasicLit" THEN printName(pr, SubSeq(n.val, 3, Len(n.val)))
  ELSE IF n.type = "SelectorExpr" THEN printNode(printToken(printNode(pr, n.kids[1]), "Dot"), n.kids[2])
  ELSE IF n.type = "IndexExpr" THEN printToken(printNode(printToken(printNode(pr, n.kids[1]), "Lbrack"), n.kids[2]), "Rbrack")
  ELSE IF n.type = "CallExpr"
  THEN printToken(printExprList(printToken(printNode(pr, n.kids[1]), "Lparen"), n.kids[2].kids, 1), "Rparen")
  ELSE IF n.type = "Operation" THEN
    IF n.kids[2] = Nil THEN printNode(printOperator(pr, n.val[1]), n.kids[1])
    ELSE printNode(printCtrl(printOperator(printCtrl(printNode(pr, n.kids[1]), "blank"), n.val[1]), "blank"), n.kids[2])
  ELSE IF n.type = "SliceType" THEN printNode(printToken(printToken(pr, "Lbrack"), "Rbrack"), n.kids[1])
  ELSE IF n.type = "DeclStmt" THEN printDecl(pr, n.kids[1].kids)
  ELSE IF n.type = "ExprStmt" THEN printNode(pr, n.kids[1])
  ELSE IF n.type = "AssignStmt" THEN printAssignStmt(pr, n)
  ELSE IF n.type = "ReturnStmt"
  THEN IF n.kids[1] # Nil THEN printNode(printCtrl(printToken(pr, "Return"), "blank"), n.kids[1]) ELSE printToken(pr, "Return")
  ELSE IF n.type = "BlockStmt" THEN printBlockStmt(pr, n)
  ELSE IF n.type = "IfStmt" THEN printIfStmt(pr, n)
  ELSE IF n.type = "ForStmt" THEN printForStmt(pr, n)
  ELSE IF n.type = "TypeDecl" THEN printTypeDecl(pr, n)
  ELSE IF n.type = "VarDecl" THEN printVarDecl(pr, n)
  ELSE IF n.type = "FuncDecl" THEN printFuncDecl(pr, n)
  ELSE IF n.type = "File" THEN printFile(pr, n)
  ELSE halted(pr, "panic")

Fprint(x, form) == flush(printNode(printerInit(form), x), "EOF")

\* ------------------------------------------------------------------------
\* Parsing and printing as a state machine: a source file is parsed, and
\* when it parses without a diagnostic verifyPrint prints the tree, parses
\* the printed text and prints the second tree. vp.stage is the position in
\* that sequence; halt1, phalt1, halt2 and phalt2 are the ways the four
\* calls went.
\* ------------------------------------------------------------------------

\* the header of a file and the lexemes its body is built from
SpaceHeader == <<"s","p","a","c","e"," ","m",";">>

FileChunks == {
  <<" ","v","a","r"," ","x"," ","="," ","a">>,
  <<" ","<"," ","b">>, <<" ","=","="," ","c">>, <<" ","+"," ","d">>, <<" ","/"," ","e">>,
  <<" ","o","p"," ","f">>,
  <<"(">>, <<")">>, <<","," ","b">>, <<";">>,
  <<" ","f","u","n","c"," ","f","(",")"," ","{">>, <<" ","r","e","t","u","r","n"," ","a">>, <<" ","}">>,
  <<" ","b","r","e","a","k">>,
  <<" ","[","]","T","{">>,
  <<" ","f","u","n","c"," ","f","(",")"," ","[","]","[","]","T">>,
  <<LF,"/","/","l","i","n","e"," ","f",":","7",LF>>, <<" ","/","*","l","i","n","e"," ","g",":","9",":","2","*","/">>
}

\* the number of lexemes of a body
MaxFileChunks == 3

RECURSIVE Bodies(_)
Bodies(n) == IF n = 0 THEN {<<>>} ELSE LET shorter == Bodies(n - 1) IN shorter \cup {c \o b : c \in FileChunks, b \in shorter}

\* the files: bodies with the header, and without it
Files(n) == {SpaceHeader \o b : b \in Bodies(n)} \cup Bodies(n)

\* a source file before it is parsed
Unparsed(f) == [stage |-> "source", src |-> f, halt1 |-> "run", errs |-> <<>>, ast1 |-> Nil, base1 |-> NoBase, phalt1 |-> "run", bytes1 |-> <<>>,
                halt2 |-> "run", ast2 |-> Nil, phalt2 |-> "run", bytes2 |-> <<>>]

ParseInit ==
  /\ sc = ScannerInit(<<>>)
  /\ tokset = {}
  /\ members = {}
  /\ vp \in {Unparsed(f) : f \in Files(MaxFileChunks)}

\* TestVerify: ParseFile
ParseFile ==
  /\ vp.stage = "source"
  /\ vp' = The({[vp EXCEPT !.stage = "parsed", !.halt1 = r.p.halt, !.errs = r.p.errs, !.ast1 = r.x, !.base1 = r.p.base] : r \in {Parse(vp.src)}})
  /\ UNCHANGED <<sc, tokset, members>>

\* verifyPrint: Fprint(&buf1, ast1, LineForm), when ParseFile gave no error
PrintFirst ==
  /\ vp.stage = "parsed" /\ vp.halt1 = "run" /\ vp.errs = <<>>
  /\ vp' = The({[vp EXCEPT !.stage = "printed", !.phalt1 = q.halt, !.bytes1 = q.output] : q \in {Fprint(vp.ast1, LineForm)}})
  /\ UNCHANGED <<sc, tokset, members>>

\* verifyPrint: Parse of the printed text
ParseAgain ==
  /\ vp.stage = "printed" /\ vp.phalt1 = "run"
  /\ vp' = The({[vp EXCEPT !.stage = "reparsed", !.halt2 = r.p.halt, !.ast2 = r.x] : r \in {Parse(vp.bytes1)}})
  /\ UNCHANGED <<sc, tokset, members>>

\* verifyPrint: Fprint(&buf2, ast2, LineForm)
PrintSecond ==
  /\ vp.stage = "reparsed" /\ vp.halt2 = "run"
  /\ vp' = The({[vp EXCEPT !.stage = "verified", !.phalt2 = q.halt, !.bytes2 = q.output] : q \in {Fprint(vp.ast2, LineForm)}})
  /\ UNCHANGED <<sc, tokset, members>>

ParseNext == ParseFile \/ PrintFirst \/ ParseAgain \/ PrintSecond

SpecParse == ParseInit /\ [][ParseNext]_vars

\* String: the tree printed in ShortForm, beside its print in LineForm
String ==
  /\ vp.stage = "parsed" /\ vp.halt1 = "run" /\ vp.ast1 # Nil
  /\ vp' = The({The({[vp EXCEPT !.stage = "short", !.phalt1 = l.halt, !.bytes1 = l.output, !.phalt2 = q.halt, !.bytes2 = q.output]
                        : q \in {Fprint(vp.ast1, ShortForm)}}) : l \in {Fprint(vp.ast1, LineForm)}})
  /\ UNCHANGED <<sc, tokset, members>>

SpecShort == ParseInit /\ [][ParseFile \/ String]_vars

\* ------------------------------------------------------------------------
\* The parser on files of one expression of three operands
\* ------------------------------------------------------------------------

\* the binary operators: the text, the Operator, and the precedence as it
\* is written: OrOr, AndAnd, comparison, additive, multiplicative
BinaryOps == {
  [text |-> <<"|","|">>, op |-> "OrOr", prec |-> 1], [text |-> <<"&","&">>, op |-> "AndAnd", prec |-> 2],
  [text |-> <<"=","=">>, op |-> "Eql", prec |-> 3], [text |-> <<"!","=">>, op |-> "Neq", prec |-> 3],
  [text |-> <<"<">>, op |-> "Lss", prec |-> 3], [text |-> <<"<","=">>, op |-> "Leq", prec |-> 3],
  [text |-> <<">">>, op |-> "Gtr", prec |-> 3], [text |-> <<">","=">>, op |-> "Geq", prec |-> 3],
  [text |-> <<"+">>, op |-> "Add", prec |-> 4], [text |-> <<"-">>, op |-> "Sub", prec |-> 4],
  [text |-> <<"*">>, op |-> "Mul", prec |-> 5], [text |-> <<"/">>, op |-> "Div", prec |-> 5],
  [text |-> <<"%">>, op |-> "Rem", prec |-> 5]
}

\* the unary operator of precedence 0
NotOp == [text |-> <<"!">>, op |-> "Not", prec |-> 0]

\* the file that declares x as a op1 b op2 c
PrecSource(o1, o2) == SpaceHeader \o <<" ","v","a","r"," ","x"," ","="," ","a"," ">> \o o1.text \o <<" ","b"," ">> \o o2.text \o <<" ","c">>

PrecInit ==
  /\ sc = ScannerInit(<<>>)
  /\ tokset = {}
  /\ members = {}
  /\ vp \in {Unparsed(PrecSource(o1, o2)) : o1, o2 \in BinaryOps \cup {NotOp}}

SpecPrec == PrecInit /\ [][ParseFile]_vars

\* ------------------------------------------------------------------------
\* The same machine on files of declarations
\* ------------------------------------------------------------------------

\* declarations: the three forms of a variable declaration with a name and
\* with a slice type, type declarations, and parenthesised lists
DeclChunks == {
  <<" ","v","a","r"," ","x"," ","T">>, <<" ","v","a","r"," ","x"," ","="," ","a">>,
  <<" ","v","a","r"," ","x"," ","T"," ","="," ","a">>,
  <<" ","v","a","r"," ","x"," ","[","]","T">>, <<" ","v","a","r"," ","x"," ","[","]","T"," ","="," ","a">>,
  <<" ","t","y","p","e"," ","A"," ","B">>,
  <<" ","v","a","r"," ","("," ","x"," ","T",";"," ","y"," ","T"," ",")">>,
  <<" ","t","y","p","e"," ","("," ","A"," ","B"," ",")">>,
  <<";">>, <<LF>>
}

\* the number of lexemes of a file of declarations
MaxDeclChunks == 3

RECURSIVE DeclBodies(_)
DeclBodies(n) == IF n = 0 THEN {<<>>} ELSE LET shorter == DeclBodies(n - 1) IN shorter \cup {c \o b : c \in DeclChunks, b \in shorter}

DeclFiles(n) == {SpaceHeader \o b : b \in DeclBodies(n)}

DeclInit ==
  /\ sc = ScannerInit(<<>>)
  /\ tokset = {}
  /\ members = {}
  /\ vp \in {Unparsed(f) : f \in DeclFiles(MaxDeclChunks)}

SpecDecl == DeclInit /\ [][ParseNext]_vars

\* ------------------------------------------------------------------------
\* Line directives as a state machine: the handler of parser.init is called
\* with the comments a scanner surfaces when its directives flag is set.
\* vp.p is the parser, vp.prev the parser before the last call, vp.call the
\* last call and vp.n the number of calls.
\* ------------------------------------------------------------------------

\* the file names and the numbers directives are written with
DirNames == {<<>>, <<"f">>}
DirLines == {<<"7">>, <<"0">>, <<"x">>, <<"1","0","7","3","7","4","1","8","2","4">>, <<"1","0","7","3","7","4","1","8","2","5">>, MaxUint64 \o <<"0">>}
DirCols == {<<"3">>, <<"0">>, <<"1","0","7","3","7","4","1","8","2","5">>}

\* directives of the form name:line and of the form name:line:col
DirTexts ==
  {[name |-> n, line |-> l, col |-> <<>>, hasCol |-> FALSE] : n \in DirNames, l \in DirLines}
    \cup {[name |-> n, line |-> l, col |-> c, hasCol |-> TRUE] : n \in DirNames, l \in DirLines, c \in DirCols}

DirText(d) == d.name \o <<":">> \o d.line \o (IF d.hasCol THEN <<":">> \o d.col ELSE <<>>)

\* the comments: a line comment in column 1 and further right, a general
\* comment further right
DirComments ==
  {[col |-> c, msg |-> <<"/", "/">> \o linePrefix \o DirText(d), d |-> d] : c \in {colbase, colbase + 2}, d \in DirTexts}
    \cup {[col |-> colbase + 2, msg |-> <<"/", "*">> \o linePrefix \o DirText(d) \o <<"*", "/">>, d |-> d] : d \in DirTexts}

\* the number of comments
MaxDirectives == 2

BaseInit ==
  /\ sc = ScannerInit(<<>>)
  /\ tokset = {}
  /\ members = {}
  /\ vp = [stage |-> "base", p |-> parserInit(<<>>), prev |-> parserInit(<<>>), call |-> [col |-> 0, msg |-> <<>>, d |-> <<>>], n |-> 0]

\* the scanner surfaces a comment on the next line
Directive ==
  /\ vp.stage = "base" /\ vp.n < MaxDirectives
  /\ \E c \in DirComments :
       vp' = [vp EXCEPT !.p = handler(vp.p, vp.n + 1, c.col, c.msg), !.prev = vp.p, !.call = c, !.n = @ + 1]
  /\ UNCHANGED <<sc, tokset, members>>

SpecBase == BaseInit /\ [][Directive]_vars

\* ------------------------------------------------------------------------
\* ParseExpr: an expression parsed from a text of its own
\* ------------------------------------------------------------------------

\* ParseExprFrom: the expression and whether an error is returned
ParseExprFrom(fset, src) == parser("ParseExprFrom", [parserInit(src) EXCEPT !.file = fset, !.base = fset])

ParseExpr(x) == ParseExprFrom(NewFileBase(<<>>), x)

\* valid expressions, malformed ones, and the texts that follow them
ValidExprs == {<<"a"," ","+"," ","b">>, <<"a">>, <<"a","(","b",")">>, <<"a","[","i","]">>, <<"-","a"," ","<"," ","1">>}
MalformedExprs == {<<"a"," ","+"," ","*">>, <<"a"," ","+">>, <<"(","a">>, <<"a","[">>}
Followers == {<<LF>>, <<" ">>, <<";">>, <<")">>, <<"]">>, <<"}">>, <<",">>, <<"!">>}

\* the number of texts that follow an expression
MaxFollow == 2

RECURSIVE Follows(_)
Follows(n) == IF n = 0 THEN {<<>>} ELSE LET shorter == Follows(n - 1) IN shorter \cup {c \o b : c \in Followers, b \in shorter}

ExprInit ==
  /\ sc = ScannerInit(<<>>)
  /\ tokset = {}
  /\ members = {}
  /\ vp \in {[stage |-> "expr", head |-> h, follow |-> f, x |-> Nil, err |-> FALSE] : h \in ValidExprs \cup MalformedExprs, f \in Follows(MaxFollow)}

\* TestParseExpr: one call of ParseExpr
CallParseExpr ==
  /\ vp.stage = "expr"
  /\ vp' = The({[vp EXCEPT !.stage = "exprParsed", !.x = r.x, !.err = r.err] : r \in {ParseExpr(vp.head \o vp.follow)}})
  /\ UNCHANGED <<sc, tokset, members>>

SpecExpr == ExprInit /\ [][CallParseExpr]_vars

\* ------------------------------------------------------------------------
\* The compile command: loadSpace
\* ------------------------------------------------------------------------

PawExt == <<".","p","a","w">>

\* filepath.Ext: the suffix of the last element of the path from its last dot
Ext(path) ==
  IF LastIndex(path, ".") > LastIndex(path, "/") THEN SubSeq(path, LastIndex(path, ".") + 1, Len(path)) ELSE <<>>

\* filepath.Clean on a directory without .. and without doubled separators
RECURSIVE Clean(_)
Clean(d) ==
  IF d = <<>> THEN <<".">>
  ELSE IF Len(d) > 1 /\ d[Len(d)] = "/" THEN Clean(SubSeq(d, 1, Len(d) - 1))
  ELSE IF Len(d) >= 2 /\ d[1] = "." /\ d[2] = "/" THEN Clean(SubSeq(d, 3, Len(d)))
  ELSE d

\* filepath.Dir: all but the last element of the path, cleaned
Dir(path) == Clean(SubSeq(path, 1, LastIndex(path, "/") + 1))

\* the source files on disk: the path, and what is written of it: its
\* directory, whether it has the extension .paw, the space it declares
\* (none when it does not start with space) and its text
SourceFiles == {
  [path |-> <<"a",".","p","a","w">>, dir |-> "here", paw |-> TRUE, space |-> <<"m">>, text |-> SpaceHeader],
  [path |-> <<"b",".","p","a","w">>, dir |-> "here", paw |-> TRUE, space |-> <<"m">>, text |-> SpaceHeader \o <<" ","v","a","r"," ","x"," ","="," ","a">>],
  [path |-> <<"c",".","p","a","w">>, dir |-> "here", paw |-> TRUE, space |-> <<"n">>, text |-> <<"s","p","a","c","e"," ","n",";">>],
  [path |-> <<".","/","d",".","p","a","w">>, dir |-> "here", paw |-> TRUE, space |-> <<"m">>, text |-> SpaceHeader],
  [path |-> <<"p","/","a",".","p","a","w">>, dir |-> "p", paw |-> TRUE, space |-> <<"m">>, text |-> SpaceHeader],
  [path |-> <<"p",".","q","/","w">>, dir |-> "p.q", paw |-> FALSE, space |-> <<"m">>, text |-> SpaceHeader],
  [path |-> <<"w",".","f","i","l","e">>, dir |-> "here", paw |-> FALSE, space |-> <<"m">>, text |-> SpaceHeader],
  [path |-> <<"e",".","p","a","w">>, dir |-> "here", paw |-> TRUE, space |-> <<>>, text |-> <<" ","v","a","r"," ","x"," ","="," ","a">>]
}

SourceFile(path) == CHOOSE f \in SourceFiles : f.path = path

\* parser.ParseFile on a file that can be read: Parse on its text
ParseFile_(path) == Parse(SourceFile(path).text)

NoError == "nil"
NoSpace == [Name |-> <<>>, FileSet |-> <<>>, nil |-> TRUE]

\* the loop of loadSpace from source i on; halt is "exit" when the process
\* ended inside the parser
RECURSIVE loadSpaceLoop(_, _, _, _, _)
loadSpaceLoop(sources, i, dir, space, FileSet) ==
  IF i > Len(sources) THEN [s |-> [Name |-> space, FileSet |-> FileSet, nil |-> FALSE], e |-> NoError, halt |-> "run"]
  ELSE IF Ext(sources[i]) # PawExt THEN [s |-> NoSpace, e |-> "invalid file extension", halt |-> "run"]
  ELSE IF dir # <<>> /\ Dir(sources[i]) # dir THEN [s |-> NoSpace, e |-> "files must be in the same directory", halt |-> "run"]
  ELSE The({IF r.p.halt # "run" THEN [s |-> NoSpace, e |-> NoError, halt |-> r.p.halt]
            ELSE IF space # <<>> /\ r.x.kids[1].val # space THEN [s |-> NoSpace, e |-> "space name mismatch", halt |-> "run"]
            ELSE loadSpaceLoop(sources, i + 1, Dir(sources[i]), r.x.kids[1].val, Append(FileSet, r.x))
              : r \in {ParseFile_(sources[i])}})

loadSpace(sources) ==
  IF Len(sources) = 0 THEN [s |-> NoSpace, e |-> "no source files provided", halt |-> "run"]
  ELSE loadSpaceLoop(sources, 1, <<>>, <<>>, <<>>)

\* the number of sources of a call
MaxSources == 3

RECURSIVE SourceLists(_)
SourceLists(n) == IF n = 0 THEN {<<>>} ELSE LET shorter == SourceLists(n - 1) IN shorter \cup {<<f.path>> \o l : f \in SourceFiles, l \in shorter}

LoadInit ==
  /\ sc = ScannerInit(<<>>)
  /\ tokset = {}
  /\ members = {}
  /\ vp \in {[stage |-> "sources", sources |-> l, s |-> NoSpace, e |-> NoError, halt |-> "run"] : l \in SourceLists(MaxSources)}

\* runCompile: one call of loadSpace
LoadSpace ==
  /\ vp.stage = "sources"
  /\ vp' = The({[vp EXCEPT !.stage = "loaded", !.s = r.s, !.e = r.e, !.halt = r.halt] : r \in {loadSpace(vp.sources)}})
  /\ UNCHANGED <<sc, tokset, members>>

SpecLoad == LoadInit /\ [][LoadSpace]_vars

\* the sources of a call are refused: there is none, one has not the
\* extension .paw, two lie in different directories, or two declare
\* different spaces
Refused(sources) ==
  \/ sources = <<>>
  \/ \E i \in 1..Len(sources) : ~SourceFile(sources[i]).paw
  \/ \E i, j \in 1..Len(sources) : SourceFile(sources[i]).dir # SourceFile(sources[j]).dir
  \/ \E i, j \in 1..Len(sources) : SourceFile(sources[i]).space # SourceFile(sources[j]).space

\* C21: loadSpace returns an error and no Space for refused sources, and
\* otherwise the Space named by the common space name with one parsed File
\* for each source, in the order of the arguments.
C21_LoadSpace ==
  vp.stage = "loaded" =>
    /\ vp.halt = "run"
    /\ Refused(vp.sources) => vp.e # NoError /\ vp.s = NoSpace
    /\ ~Refused(vp.sources) =>
         /\ vp.e = NoError
         /\ ~vp.s.nil
         /\ vp.s.Name = SourceFile(vp.sources[1]).space
         /\ Len(vp.s.FileSet) = Len(vp.sources)
         /\ \A i \in 1..Len(vp.sources) : vp.s.FileSet[i] = Parse(SourceFile(vp.sources[i]).text).x

\* ------------------------------------------------------------------------
\* Commands: Lookup
\* ------------------------------------------------------------------------

\* strings.Index: the index from 0 of the first sub in text, -1 without one
Index(text, sub) ==
  IF \E i \in 0..(Len(text) - Len(sub)) : SubSeq(text, i + 1, i + Len(sub)) = sub
  THEN CHOOSE i \in 0..(Len(text) - Len(sub)) :
         SubSeq(text, i + 1, i + Len(sub)) = sub /\ \A j \in 0..(i - 1) : SubSeq(text, j + 1, j + Len(sub)) # sub
  ELSE -1

jindo == <<"j","i","n","d","o">>

\* Command.LongName: the words of the usage line between jindo and a flag
\* or an argument
LongName(c) ==
  The({IF nm = jindo THEN <<>>
       ELSE IF HasPrefix(nm, jindo \o <<" ">>) THEN SubSeq(nm, Len(jindo) + 2, Len(nm))
       ELSE nm
         : nm \in {IF Index(c.UsageLine, <<" ","[">>) >= 0 THEN SubSeq(c.UsageLine, 1, Index(c.UsageLine, <<" ","[">>)) ELSE c.UsageLine}})

\* Command.Name: the last word of the long nm
CommandName(c) == SubSeq(LongName(c), LastIndex(LongName(c), " ") + 2, Len(LongName(c)))

\* Command.Runnable
Runnable(c) == c.Run

\* the nil *Command
NoCommand == [UsageLine |-> <<>>, Run |-> FALSE, Commands |-> <<>>]

\* Command.Lookup from subcommand i on
RECURSIVE Lookup(_, _, _)
Lookup(c, nm, i) ==
  IF i > Len(c.Commands) THEN [ok |-> FALSE, cmd |-> NoCommand]
  ELSE IF CommandName(c.Commands[i]) = nm /\ (Len(c.Commands) > 0 \/ Runnable(c))
       THEN [ok |-> TRUE, cmd |-> c.Commands[i]]
  ELSE Lookup(c, nm, i + 1)

\* usage lines, each with the nm of its command as it is written
UsageLines == {
  [line |-> jindo \o <<" ","c"," ","[","-","o","]"," ","[","f","]">>, short |-> <<"c">>],
  [line |-> jindo \o <<" ","c">>, short |-> <<"c">>],
  [line |-> jindo \o <<" ","h"," ","t"," ","[","x","]">>, short |-> <<"t">>],
  [line |-> jindo, short |-> <<>>]
}

Leaf == [UsageLine |-> jindo \o <<" ","c"," ","l">>, Run |-> TRUE, Commands |-> <<>>]

SubCommands == {[UsageLine |-> u.line, Run |-> r, Commands |-> cs] : u \in UsageLines, r \in BOOLEAN, cs \in {<<>>, <<Leaf>>}}

\* the number of subcommands of a command
MaxSubs == 2

RECURSIVE CommandLists(_)
CommandLists(n) == IF n = 0 THEN {<<>>} ELSE LET shorter == CommandLists(n - 1) IN shorter \cup {<<c>> \o l : c \in SubCommands, l \in shorter}

CmdInit ==
  /\ sc = ScannerInit(<<>>)
  /\ tokset = {}
  /\ members = {}
  /\ vp \in {[stage |-> "command", c |-> [UsageLine |-> jindo, Run |-> r, Commands |-> cs], nm |-> n, found |-> [ok |-> FALSE, cmd |-> NoCommand]]
               : r \in BOOLEAN, cs \in CommandLists(MaxSubs), n \in {u.short : u \in UsageLines}}

\* a call of Lookup
CallLookup ==
  /\ vp.stage = "command"
  /\ vp' = [vp EXCEPT !.stage = "looked", !.found = Lookup(vp.c, vp.nm, 1)]
  /\ UNCHANGED <<sc, tokset, members>>

SpecCmd == CmdInit /\ [][CallLookup]_vars

\* the nm written in the usage line of a command
ShortName(c) == (CHOOSE u \in UsageLines : u.line = c.UsageLine).short

\* a subcommand Lookup may return for a nm
Qualifies(sub, nm) == ShortName(sub) = nm /\ (sub.Commands # <<>> \/ sub.Run)

\* C23: Lookup returns a subcommand only if it has the nm and has
\* subcommands of its own or is runnable, and returns nil when no
\* subcommand is such.
C23_LookupSkipsHelpTopics ==
  vp.stage = "looked" =>
    /\ vp.found.ok => Qualifies(vp.found.cmd, vp.nm)
    /\ (\A i \in DOMAIN vp.c.Commands : ~Qualifies(vp.c.Commands[i], vp.nm)) => ~vp.found.ok

\* ------------------------------------------------------------------------
\* Positions: MakePos and NewLineBase on lines and columns around PosMax
\* ------------------------------------------------------------------------

\* lines and columns below, at and above PosMax, up to the largest value
\* the checker's integers hold
PosValues == {0, 1, 2, 3, 1000, PosMax - 2, PosMax - 1, PosMax, PosMax + 1, PosMax + 2, 2147483647}

PosInit ==
  /\ sc = ScannerInit(<<>>)
  /\ tokset = {}
  /\ members = {}
  /\ vp \in {[stage |-> "pos", line |-> l, col |-> c] : l, c \in PosValues}

CallMakePos ==
  /\ vp.stage = "pos"
  /\ vp' = [stage |-> "made", line |-> vp.line, col |-> vp.col, pos |-> MakePos(NoBase, vp.line, vp.col)]
  /\ UNCHANGED <<sc, tokset, members>>

CallNewLineBase ==
  /\ vp.stage = "pos"
  /\ vp' = [stage |-> "based", line |-> vp.line, col |-> vp.col, base |-> NewLineBase(NoPos, <<>>, vp.line, vp.col)]
  /\ UNCHANGED <<sc, tokset, members>>

SpecPos == PosInit /\ [][CallMakePos \/ CallNewLineBase]_vars

\* C27: the line and the column stored in a Pos made by MakePos and in a
\* PosBase made by NewLineBase are at most PosMax, whatever line and column
\* are given.
C27_PositionsSaturate ==
  /\ vp.stage = "made" => vp.pos.line <= PosMax /\ vp.pos.col <= PosMax
  /\ vp.stage = "based" => vp.base.line <= PosMax /\ vp.base.col <= PosMax

\* ------------------------------------------------------------------------
\* Commands: the exit status, set by concurrent calls of SetExitStatus
\* ------------------------------------------------------------------------

\* the number of concurrent calls
MaxCalls == 3

Calls == 1..MaxCalls

\* the arguments of the calls
ExitValues == {-1, 0, 1, 2}

\* exitMu is 0 when unlocked, and the call that holds it otherwise; pc is
\* where each call stands
ExitInit ==
  /\ sc = ScannerInit(<<>>)
  /\ tokset = {}
  /\ members = {}
  /\ vp \in {[stage |-> "exit", exitStatus |-> 0, exitMu |-> 0, n |-> ns, pc |-> [i \in Calls |-> "lock"], wrote |-> {}]
               : ns \in [Calls -> ExitValues]}

\* Lock without waiting for the mutex
LockNoWait(i) ==
  /\ vp.stage = "exit" /\ vp.pc[i] = "lock"
  /\ vp' = [vp EXCEPT !.exitMu = i, !.pc[i] = "test"]
  /\ UNCHANGED <<sc, tokset, members>>

\* exitMu.Lock()
Lock(i) ==
  /\ vp.stage = "exit" /\ vp.pc[i] = "lock" /\ vp.exitMu = 0
  /\ vp' = [vp EXCEPT !.exitMu = i, !.pc[i] = "test"]
  /\ UNCHANGED <<sc, tokset, members>>

\* if exitStatus < n
TestStatus(i) ==
  /\ vp.stage = "exit" /\ vp.pc[i] = "test"
  /\ vp' = [vp EXCEPT !.pc[i] = IF vp.exitStatus < vp.n[i] THEN "store" ELSE "unlock"]
  /\ UNCHANGED <<sc, tokset, members>>

\* exitStatus = n
StoreStatus(i) ==
  /\ vp.stage = "exit" /\ vp.pc[i] = "store"
  /\ vp' = [vp EXCEPT !.exitStatus = vp.n[i], !.pc[i] = "unlock", !.wrote = @ \cup {i}]
  /\ UNCHANGED <<sc, tokset, members>>

\* exitMu.Unlock()
Unlock(i) ==
  /\ vp.stage = "exit" /\ vp.pc[i] = "unlock"
  /\ vp' = [vp EXCEPT !.exitMu = 0, !.pc[i] = "done"]
  /\ UNCHANGED <<sc, tokset, members>>

SetExitStatus(i) == Lock(i) \/ TestStatus(i) \/ StoreStatus(i) \/ Unlock(i)

SpecExit == ExitInit /\ [][\E i \in Calls : SetExitStatus(i)]_vars

\* the greatest of 0 and the arguments of the calls
MaxStatus(ns) == CHOOSE m \in {0} \cup {ns[i] : i \in DOMAIN ns} : \A i \in DOMAIN ns : ns[i] <= m /\ m >= 0

\* C29: in every interleaving of the calls no step lowers the exit status,
\* and once every call has returned the exit status is the greatest of 0
\* and the arguments.
C29_ExitStatusMax ==
  [][/\ vp'.exitStatus >= vp.exitStatus
     /\ (\A i \in Calls : vp'.pc[i] = "done") => vp'.exitStatus = MaxStatus(vp.n)]_vars

\* every call has returned, and two of them stored their argument, the
\* smaller one first
C29_Witness ==
  /\ \A i \in Calls : vp.pc[i] = "done"
  /\ \E i, j \in vp.wrote : vp.n[i] < vp.n[j]
  /\ vp.exitStatus = MaxStatus(vp.n)

\* ------------------------------------------------------------------------
\* Properties of the parser and the printer
\* ------------------------------------------------------------------------

\* a tree without its positions
RECURSIVE Strip(_)
Strip(n) == [type |-> n.type, val |-> n.val, kids |-> [i \in DOMAIN n.kids |-> Strip(n.kids[i])]]

\* the nodes of a tree, and the known positions in it
RECURSIVE Nodes(_)
Nodes(n) == {n} \cup UNION {Nodes(n.kids[i]) : i \in DOMAIN n.kids}
KnownPos(n) == {m.pos : m \in Nodes(n)} \ {NoPos}

PosBefore(a, b) == a.line < b.line \/ (a.line = b.line /\ a.col < b.col)

\* the index in src of the character at a position
RECURSIVE LineStart(_, _, _)
LineStart(src, line, i) ==
  IF line <= linebase \/ i > Len(src) THEN i
  ELSE LineStart(src, IF src[i] = LF THEN line - 1 ELSE line, i + 1)
OffsetOf(src, at) == LineStart(src, at.line, 1) + at.col - colbase

\* whether the operator < stands at a position of src
LssAt(src, at) ==
  /\ OffsetOf(src, at) \in 1..Len(src)
  /\ src[OffsetOf(src, at)] = "<"
  /\ OffsetOf(src, at) < Len(src) => src[OffsetOf(src, at) + 1] \notin {"=", "<"}

\* whether the first token of src is the keyword space
HasSpaceHeader(src) == pNext(parserInit(src)).tok = "Space"

\* whether every position in tree a is before at and at is before every
\* position in tree b
Around(a, at, b) ==
  /\ \A q \in KnownPos(a) : PosBefore(q, at)
  /\ \A q \in KnownPos(b) : PosBefore(at, q)

\* the calls by which a scanner that has the directives flag set surfaces
\* the line directives of a source
RECURSIVE surfaced(_)
surfaced(s) == IF s.tok = "EOF" THEN s.errs ELSE surfaced(ScanNext(s))

\* the base a line directive installs in a parser that has the file base
BaseOf(c) == handler(parserInit(<<>>), c.line, c.col, c.msg).base

\* the line directives of a source that have valid numbers, each at the
\* position of its comment
Directives(src) ==
  {c \in ToSet(surfaced(ScanNext([ScannerInit(src) EXCEPT !.mode = 2]))) :
     c.msg[1] = "/" /\ (c.col = colbase \/ c.msg[2] = "*") /\ BaseOf(c) # NewFileBase(src_)}

\* whether c is the last directive of src before position q
Governs(src, c, q) == PosBefore(c, q) /\ \A d \in Directives(src) : ~(PosBefore(c, d) /\ PosBefore(d, q))

\* C12: once a line directive with valid numbers is passed, the parser's
\* position base is the base of that directive, rooted just after the
\* comment, and the positions of the nodes and of the diagnostics produced
\* after it carry that base.
C12_DirectiveInstallsBase ==
  vp.stage = "parsed" /\ vp.halt1 = "run" =>
    \A c \in Directives(vp.src) :
      /\ (\A d \in Directives(vp.src) : ~PosBefore(c, d)) => vp.base1 = BaseOf(c)
      /\ \A q \in KnownPos(vp.ast1) : Governs(vp.src, c, q) => q.base = BaseOf(c)
      /\ \A i \in 1..Len(vp.errs) : Governs(vp.src, c, vp.errs[i]) => vp.errs[i].base = BaseOf(c)

\* whether a comment reaches updateBase: a line comment in column 1, a
\* general comment anywhere
Reaches(c) == c.col = colbase \/ c.msg[2] = "*"

IsDigits(t) == t # <<>> /\ \A k \in 1..Len(t) : isDecimal(t[k])
OutOfRange(t) == DigitsValue(t, 0) = 0 \/ DigitsValue(t, 0) > PosMax

\* a directive with an invalid number: its last field is not a number, or
\* its line or column number is 0 or beyond PosMax (a field before the
\* column that is not a number is the end of the file name, not a line
\* number)
InvalidNumbers(d) ==
  \/ ~d.hasCol /\ (~IsDigits(d.line) \/ OutOfRange(d.line))
  \/ d.hasCol /\ (~IsDigits(d.col) \/ OutOfRange(d.col))
  \/ d.hasCol /\ IsDigits(d.col) /\ IsDigits(d.line) /\ OutOfRange(d.line)

\* a directive with valid numbers and no file name
EmptyNameValid(d) ==
  /\ d.name = <<>> /\ IsDigits(d.line) /\ ~OutOfRange(d.line)
  /\ d.hasCol => IsDigits(d.col) /\ ~OutOfRange(d.col)

\* C13: a line directive with an invalid line or column number makes
\* updateBase report exactly one diagnostic, "invalid line number" or
\* "invalid column number", and leaves the position base as it was.
C13_InvalidDirective ==
  vp.stage = "base" /\ vp.n > 0 /\ Reaches(vp.call) /\ InvalidNumbers(vp.call.d) =>
    /\ Len(vp.p.errs) = Len(vp.prev.errs) + 1
    /\ SubSeq(vp.p.errs, 1, Len(vp.prev.errs)) = vp.prev.errs
    /\ \/ HasPrefix(vp.p.errs[Len(vp.p.errs)].msg, invalidLine)
       \/ HasPrefix(vp.p.errs[Len(vp.p.errs)].msg, invalidColumn)
    /\ vp.p.base = vp.prev.base

\* C14, as stated: a valid line directive without a file name installs a
\* base with the file name of the previous base, in the form :line and in
\* the form :line:col.
C14_EmptyFilenameBothForms ==
  vp.stage = "base" /\ vp.n > 0 /\ Reaches(vp.call) /\ EmptyNameValid(vp.call.d) =>
    vp.p.base # vp.prev.base /\ vp.p.base.filename = vp.prev.base.filename

\* C14, amended: a valid line directive without a file name installs a
\* base with the file name of the previous base in the form :line:col, and
\* with the empty file name in the form :line.
C14_EmptyFilename ==
  vp.stage = "base" /\ vp.n > 0 /\ Reaches(vp.call) /\ EmptyNameValid(vp.call.d) =>
    /\ vp.p.base # vp.prev.base
    /\ vp.p.base.line = DigitsValue(vp.call.d.line, 0)
    /\ vp.p.base.filename = IF vp.call.d.hasCol THEN vp.prev.base.filename ELSE <<>>

\* a directive :line:col follows one that named the file f
C14_Witness ==
  /\ vp.stage = "base" /\ vp.n = 2 /\ Reaches(vp.call) /\ EmptyNameValid(vp.call.d)
  /\ vp.call.d.hasCol /\ vp.prev.base.filename = <<"f">> /\ vp.p.base.filename = <<"f">>
  /\ vp.p.base # vp.prev.base

\* the tokens of a source with their positions
RECURSIVE tokensOf(_, _)
tokensOf(s, toks) == IF s.tok = "EOF" THEN toks ELSE tokensOf(ScanNext(s), Append(toks, [tok |-> s.tok, line |-> s.tline, col |-> s.tcol]))
SrcTokens(src) == tokensOf(ScanNext(ScannerInit(src)), <<>>)

\* the parenthesised declaration lists of a source: from the ( that follows
\* var or type to the next )
ParenLists(src) ==
  {[from |-> SrcTokens(src)[k + 1],
    to |-> IF \E j \in (k + 2)..Len(SrcTokens(src)) : SrcTokens(src)[j].tok = "Rparen"
           THEN SrcTokens(src)[CHOOSE j \in (k + 2)..Len(SrcTokens(src)) : SrcTokens(src)[j].tok = "Rparen" /\ \A i \in (k + 2)..(j - 1) : SrcTokens(src)[i].tok # "Rparen"]
           ELSE [tok |-> "EOF", line |-> PosMax, col |-> PosMax]]
     : k \in {i \in 1..(Len(SrcTokens(src)) - 1) : SrcTokens(src)[i].tok \in {"Var", "Type"} /\ SrcTokens(src)[i + 1].tok = "Lparen"}}

Within(l, q) == PosBefore(l.from, q) /\ PosBefore(q, l.to)

\* the variable and type declarations of a file, and the group of one
Decls(f) == {d \in ToSet(f.kids[2].kids) : d.type \in {"VarDecl", "TypeDecl"}}
GroupOf(d) == IF d.type = "VarDecl" THEN d.val[1] ELSE d.val[2]

\* C15: the declarations of a parenthesised list after var or type are
\* returned with one non-nil Group, which no declaration outside the list
\* has, and a declaration outside every list has the nil Group.
C15_GroupSemantics ==
  vp.stage = "parsed" /\ vp.halt1 = "run" /\ vp.ast1.type = "File" =>
    /\ \A l \in ParenLists(vp.src) : \E d \in Decls(vp.ast1) : Within(l, d.pos)
    /\ \A d \in Decls(vp.ast1) : (\E l \in ParenLists(vp.src) : Within(l, d.pos)) <=> GroupOf(d) # NoGroup
    /\ \A d1, d2 \in Decls(vp.ast1) :
         GroupOf(d1) # NoGroup /\ GroupOf(d2) # NoGroup =>
           (GroupOf(d1) = GroupOf(d2) <=> \E l \in ParenLists(vp.src) : Within(l, d1.pos) /\ Within(l, d2.pos))

\* the forms of a variable declaration, each with the type and the value
\* that are written in it
VarForms == {
  [text |-> <<" ","v","a","r"," ","x"," ","T">>, type |-> Name(NoPos, <<"T">>), value |-> Nil],
  [text |-> <<" ","v","a","r"," ","x"," ","="," ","a">>, type |-> Nil, value |-> Name(NoPos, <<"a">>)],
  [text |-> <<" ","v","a","r"," ","x"," ","T"," ","="," ","a">>, type |-> Name(NoPos, <<"T">>), value |-> Name(NoPos, <<"a">>)],
  [text |-> <<" ","v","a","r"," ","x"," ","[","]","T">>, type |-> SliceType(NoPos, Name(NoPos, <<"T">>)), value |-> Nil],
  [text |-> <<" ","v","a","r"," ","x"," ","[","]","T"," ","="," ","a">>, type |-> SliceType(NoPos, Name(NoPos, <<"T">>)), value |-> Name(NoPos, <<"a">>)]
}

\* C16: a file of one variable declaration var x T, var x = e or
\* var x T = e, with T a name or a slice type, parses without diagnostics
\* to one Var node whose type and value are the ones written.
C16_VarDeclForms ==
  \A f \in VarForms :
    vp.stage = "parsed" /\ vp.src = SpaceHeader \o f.text =>
      /\ vp.errs = <<>>
      /\ vp.halt1 = "run"
      /\ vp.ast1.type = "File"
      /\ Len(vp.ast1.kids[2].kids) = 1
      /\ Strip(vp.ast1.kids[2].kids[1]) = Strip(VarDecl(NoPos, NoGroup, Name(NoPos, <<"x">>), f.type, f.value))

\* C17: when the first token of a file is not space, Parse returns to its
\* caller the partial File with no declaration in it, and the process is
\* not terminated.
C17_FatalErrorReturns ==
  vp.stage = "parsed" /\ ~HasSpaceHeader(vp.src) =>
    /\ vp.halt1 # "exit"
    /\ vp.ast1.type = "File"
    /\ vp.ast1.kids[2].kids = <<>>

\* the nodes whose source text starts with their left operand
LeftOperandFirst(n) ==
  \/ n.type \in {"SelectorExpr", "IndexExpr", "CallExpr", "AssignStmt", "DefineStmt"}
  \/ n.type = "Operation" /\ n.kids[2] # Nil

\* C18: in a tree parsed without diagnostics every node carries the position
\* of the first character of its source text: no node below it has an
\* earlier position, and a binary Operation, a selector, an index
\* expression, a call, an assignment and a define statement carry the
\* position of the operand that starts them.
C18_NodePositions ==
  vp.stage = "parsed" /\ vp.halt1 = "run" /\ vp.errs = <<>> =>
    \A n \in Nodes(vp.ast1) :
      n.pos # NoPos =>
        /\ \A q \in KnownPos(n) : PosLeq(n.pos, q)
        /\ LeftOperandFirst(n) => \E i \in DOMAIN n.kids : n.kids[i].pos = n.pos

\* only newlines and spaces follow the expression
OnlyNewlines(follow) == \A i \in 1..Len(follow) : follow[i] \in {LF, " "}

\* C20: ParseExpr returns no error for a valid expression that at most a
\* newline follows, an error when any other token follows a valid
\* expression, and an error with a tree that is not nil for a malformed
\* expression.
C20_ParseExprErrors ==
  vp.stage = "exprParsed" =>
    /\ vp.head \in ValidExprs /\ OnlyNewlines(vp.follow) => ~vp.err
    /\ vp.head \in ValidExprs /\ ~OnlyNewlines(vp.follow) => vp.err
    /\ vp.head \in MalformedExprs => vp.err /\ vp.x # Nil

\* the character written for an elided body
Ellipsis == "Ellipsis"

\* whether sub occurs in text
Occurs(text, sub) == \E i \in 0..(Len(text) - Len(sub)) : SubSeq(text, i + 1, i + Len(sub)) = sub

\* the bodies of the functions of a tree that have statements
FuncBodies(x) == {n.kids[4] : n \in {f \in Nodes(x) : f.type = "FuncDecl" /\ f.kids[4] # Nil /\ f.kids[4].kids[1].kids # <<>>}}

\* C22: the ShortForm print of a tree is its LineForm print when no function
\* has statements in its body; the print of a function that has some
\* holds the ellipsis and not the text of any statement of the body.
C22_ShortFormElides ==
  vp.stage = "short" /\ vp.phalt1 = "run" =>
    /\ vp.phalt2 = "run"
    /\ FuncBodies(vp.ast1) = {} => vp.bytes2 = vp.bytes1
    /\ \A b \in FuncBodies(vp.ast1) :
         /\ Occurs(vp.bytes2, <<Ellipsis>>)
         /\ \A i \in DOMAIN b.kids[1].kids :
              Fprint(b.kids[1].kids[i], LineForm).output # <<>> => ~Occurs(vp.bytes2, Fprint(b.kids[1].kids[i], LineForm).output)

\* C24: the printer's impliesSemi holds of a token the scanner returns
\* exactly when the scanner inserts a semicolon at a newline after it, and
\* the tokens it holds of are Name, Literal, Break, Continue, Return, IncOp,
\* Rparen, Rbrack and Rbrace.
C24_ImpliesSemiSameSet ==
  sc.tok \notin {NoToken, "EOF"} =>
    /\ impliesSemi(sc.tok) <=> sc.nlsemi
    /\ impliesSemi(sc.tok) <=> sc.tok \in SemiImplying

\* the operation x op y as the parser stores it: a < is stored as > with
\* its operands swapped
BinaryOf(o, x, y) == IF o.op = "Lss" THEN Operation(NoPos, "Gtr", y, x) ELSE Operation(NoPos, o.op, x, y)

\* a op1 b op2 c grouped by precedence
Grouped(o1, o2) ==
  IF o2.prec <= o1.prec
  THEN BinaryOf(o2, BinaryOf(o1, Name(NoPos, <<"a">>), Name(NoPos, <<"b">>)), Name(NoPos, <<"c">>))
  ELSE BinaryOf(o1, Name(NoPos, <<"a">>), BinaryOf(o2, Name(NoPos, <<"b">>), Name(NoPos, <<"c">>)))

\* C25: a op1 b op2 c parses without diagnostics to (a op1 b) op2 c when
\* the precedence of op2 is at most that of op1 and to a op1 (b op2 c) when
\* it is greater, for the binary operators from || to * / %, and no
\* Operation has the unary ! with two operands.
C25_PrecedenceClimbing ==
  vp.stage = "parsed" =>
    /\ \A o1, o2 \in BinaryOps :
         vp.src = PrecSource(o1, o2) =>
           /\ vp.errs = <<>>
           /\ vp.ast1.type = "File"
           /\ Len(vp.ast1.kids[2].kids) = 1
           /\ Strip(vp.ast1.kids[2].kids[1].kids[3]) = Strip(Grouped(o1, o2))
    /\ \A n \in Nodes(vp.ast1) : ~(n.type = "Operation" /\ n.val[1] = "Not" /\ n.kids[2] # Nil)

\* C30: Fprint returns normally, without a panic, for every tree the parser
\* returns, whatever declarations, statements, expressions and operators it
\* holds.
C30_FprintReturns ==
  vp.stage = "short" => vp.phalt1 = "run"

\* C3: for a source that parses without diagnostics, printing the tree
\* completes, parsing the printed text yields a tree structurally equal to
\* the first one, and printing the second tree yields the same bytes.
C3_PrintParseIdempotence ==
  /\ vp.stage = "printed" => vp.phalt1 = "run"
  /\ vp.stage = "reparsed" => vp.halt2 = "run" /\ Strip(vp.ast2) = Strip(vp.ast1)
  /\ vp.stage = "verified" => vp.phalt2 = "run" /\ vp.bytes2 = vp.bytes1

\* C6: for an input that begins with the space header Parse terminates and
\* returns a File: no loop of the parser repeats without consuming input,
\* and no call ends in a panic.
C6_ParseTerminates ==
  vp.stage = "parsed" /\ HasSpaceHeader(vp.src) => vp.halt1 = "run" /\ vp.ast1.type = "File"

\* C8: no binary Operation of a parsed tree has the operator Lss; the
\* Operation read at a < of the source has the operator Gtr, its Y before
\* the < and its X after it; every other binary Operation has its X before
\* its operator and its Y after it.
C8_LssCanonical ==
  vp.stage = "parsed" =>
    \A n \in Nodes(vp.ast1) : n.type = "Operation" /\ n.kids[2] # Nil =>
      /\ n.val[1] # "Lss"
      /\ LssAt(vp.src, n.pos) => n.val[1] = "Gtr" /\ Around(n.kids[2], n.pos, n.kids[1])
      /\ ~LssAt(vp.src, n.pos) => Around(n.kids[1], n.pos, n.kids[2])

============================================================================
